---------------------------- MODULE Spec2Model ----------------------------
(* A model of the CExpress server: the string utilities (utils.c), the     *)
(* route table (routers.c), handler execution (handlers.c) and the server  *)
(* core (server.c: server_init, server_start, remove_client, server_free). *)
(* Byte strings are sequences of one-character strings; a C string is the  *)
(* sequence of its bytes before the terminating NUL.                       *)
EXTENDS Integers, Sequences, FiniteSets, TLC

(***************************************************************************)
(* Bounds of the model.                                                    *)
(***************************************************************************)
\* max_clients is drawn from 1..MaxClientsBound
MaxClientsBound == 2
\* events of the peers during a run: connecting, sending a chunk, closing, resetting
MaxEvents == 4
\* routes the application registers before server_start
MaxRoutes == 1
\* routes the application registers when only the route table is exercised
MaxTableRoutes == 5

\* a raw buffer handed to the library is made of at most MaxPieces pieces
MaxPieces == 4

\* a buffer handed to split is made of at most MaxTokens tokens
MaxTokens == 4

\* a buffer handed to extract_lines holds at most MaxLines terminated lines
MaxLines == 3

\* a route table used directly holds at most MaxDirectRoutes routes
MaxDirectRoutes == 5

\* the demo's requests are followed while its id counter is below MaxNextId
MaxNextId == 13

(***************************************************************************)
(* C values.                                                               *)
(***************************************************************************)
\* a NULL char pointer (no byte string is this sequence: bytes are one character long)
NullStr == <<"NULL">>
\* a NULL function pointer
NullHandler == "NULL"
\* a NULL char** result
NullList == [null |-> TRUE, list |-> <<>>]

\* the length of the demo's array: User users[10]
UserCapacity == 10

SP == " "
CR == "\r"
LF == "\n"

\* typedef enum {GET, POST, PUT, DELETE, FAIL} method_t;
GET == 0
POST == 1
PUT == 2
DELETE == 3
FAIL == 4

\* the listening socket's descriptor: the first one free after stdin, stdout, stderr
ListenFd == 3

\* typedef enum { DEV, PROD } Mode
DEV == 0
PROD == 1

\* the address of every interface, and LOCALHOST_IP
INADDR_ANY == "0.0.0.0"
LOCALHOST_IP == "127.0.0.1"

(***************************************************************************)
(* utils.c                                                                 *)
(***************************************************************************)
RECURSIVE split_scan(_, _, _, _, _)
\* the for loop of split: i is the C index, wrd_start the start of the current token
split_scan(buffer, buff_size, sep, i, st) ==
    IF i >= buff_size THEN st
    ELSE IF buffer[i + 1] = sep
         THEN split_scan(buffer, buff_size, sep, i + 1,
                         [lst |-> Append(st.lst, SubSeq(buffer, st.wrd_start + 1, i)),
                          wrd_start |-> i + 1])
         ELSE split_scan(buffer, buff_size, sep, i + 1, st)

\* split that, like strtok, returns no empty token
split_strtok(buffer, buff_size, sep) ==
    IF buffer = NullStr \/ buff_size = 0 THEN NullList
    ELSE LET st == split_scan(buffer, buff_size, sep, 0, [lst |-> <<>>, wrd_start |-> 0])
             all == IF st.wrd_start < buff_size
                    THEN Append(st.lst, SubSeq(buffer, st.wrd_start + 1, buff_size))
                    ELSE st.lst
         IN  [null |-> FALSE, list |-> SelectSeq(all, LAMBDA t : t # <<>>)]

\* char **split(const char *buffer, size_t buff_size, const char sep)
split(buffer, buff_size, sep) ==
    IF buffer = NullStr \/ buff_size = 0 THEN NullList
    ELSE LET st == split_scan(buffer, buff_size, sep, 0, [lst |-> <<>>, wrd_start |-> 0])
         IN  IF st.wrd_start < buff_size
             THEN [null |-> FALSE,
                   list |-> Append(st.lst, SubSeq(buffer, st.wrd_start + 1, buff_size))]
             ELSE [null |-> FALSE, list |-> st.lst]

RECURSIVE extract_lines_scan_no_stop(_, _, _, _)
\* the for loop of extract_lines without the break at a zero-length line: the empty
\* line is skipped and the scan goes on
extract_lines_scan_no_stop(buffer, buff_size, i, st) ==
    IF i >= buff_size - 1 THEN st
    ELSE IF buffer[i + 1] = CR /\ buffer[i + 2] = LF
         THEN IF i - st.line_start = 0
              THEN extract_lines_scan_no_stop(buffer, buff_size, i + 2,
                       [st EXCEPT !.line_start = i + 2])
              ELSE extract_lines_scan_no_stop(buffer, buff_size, i + 2,
                       [lines |-> Append(st.lines, SubSeq(buffer, st.line_start + 1, i)),
                        line_start |-> i + 2,
                        header_end |-> FALSE])
         ELSE extract_lines_scan_no_stop(buffer, buff_size, i + 1, st)

RECURSIVE extract_lines_scan(_, _, _, _)
\* the for loop of extract_lines: i is the C index
extract_lines_scan(buffer, buff_size, i, st) ==
    IF i >= buff_size - 1 THEN st
    ELSE IF buffer[i + 1] = CR /\ buffer[i + 2] = LF
         THEN IF i - st.line_start = 0
              THEN [st EXCEPT !.header_end = TRUE]
              ELSE extract_lines_scan(buffer, buff_size, i + 2,
                       [lines |-> Append(st.lines, SubSeq(buffer, st.line_start + 1, i)),
                        line_start |-> i + 2,
                        header_end |-> FALSE])
         ELSE extract_lines_scan(buffer, buff_size, i + 1, st)

\* extract_lines without the branch for a trailing partial line
extract_lines_no_tail(buffer, buff_size) ==
    IF buffer = NullStr \/ buff_size = 0 THEN NullList
    ELSE LET st == extract_lines_scan(buffer, buff_size, 0,
                       [lines |-> <<>>, line_start |-> 0, header_end |-> FALSE])
         IN  [null |-> FALSE, list |-> st.lines]

\* char **extract_lines(const char *buffer, size_t buff_size)
extract_lines(buffer, buff_size) ==
    IF buffer = NullStr \/ buff_size = 0 THEN NullList
    ELSE LET st == extract_lines_scan(buffer, buff_size, 0,
                       [lines |-> <<>>, line_start |-> 0, header_end |-> FALSE])
         IN  IF ~st.header_end /\ st.line_start < buff_size
             THEN [null |-> FALSE,
                   list |-> Append(st.lines, SubSeq(buffer, st.line_start + 1, buff_size))]
             ELSE [null |-> FALSE, list |-> st.lines]

\* size_t strlen(const char *s)
strlen(s) == Len(s)


(***************************************************************************)
(* routers.c: the route table                                              *)
(***************************************************************************)
\* a Router value: typedef struct { method_t method; path_t path; HandlerFunc handler; } Router
Router(method, path, handler) == [method |-> method, path |-> path, handler |-> handler]

\* a Router after memset(&router, 0, sizeof(Router))
ZeroRouter == Router(0, NullStr, NullHandler)

\* a RouterList after memset(.., 0, ..): items NULL, count 0, capacity 0
ZeroRouterList == [items |-> <<>>, count |-> 0, capacity |-> 0, ptr |-> "NULL"]

\* the initial capacity of a route table
InitialCapacity == 4

\* a RouterList as server_init builds it: capacity 4, zeroed storage
NewRouterList ==
    [items |-> [k \in 1..InitialCapacity |-> ZeroRouter], count |-> 0,
     capacity |-> InitialCapacity, ptr |-> "heap"]

\* same_router that compares the handlers as well
same_router_handler(a, b) ==
    (a.method = b.method) /\ (a.path = b.path) /\ (a.handler = b.handler)

\* int same_router(const Router a, const Router b)
same_router(a, b) == (a.method = b.method) /\ (a.path = b.path)

\* add_route that grows the table with malloc instead of realloc: the new storage
\* does not hold the old entries
add_route_malloc(router_lst, router, realloc_ok) ==
    LET full == router_lst.count = router_lst.capacity
        new_cap == router_lst.capacity * 2
        grown == IF full
                 THEN [router_lst EXCEPT
                          !.items = [k \in 1..new_cap |-> ZeroRouter],
                          !.capacity = new_cap,
                          !.ptr = "heap"]
                 ELSE router_lst
    IN  IF full /\ ~realloc_ok
        THEN [ret |-> 0, lst |-> router_lst, oob |-> FALSE]
        ELSE IF grown.count >= grown.capacity
             THEN [ret |-> 1, lst |-> [grown EXCEPT !.count = grown.count + 1], oob |-> TRUE]
             ELSE [ret |-> 1,
                   lst |-> [grown EXCEPT !.items[grown.count + 1] = router,
                                         !.count = grown.count + 1],
                   oob |-> FALSE]

\* int add_route(RouterList *router_lst, Router router); realloc_ok: realloc returns non-NULL.
\* oob: the store at items[count] falls outside the storage (capacity 0 doubled is 0).
add_route(router_lst, router, realloc_ok) ==
    LET full == router_lst.count = router_lst.capacity
        new_cap == router_lst.capacity * 2
        grown == IF full
                 THEN [router_lst EXCEPT
                          !.items = [k \in 1..new_cap |->
                                        IF k <= Len(router_lst.items)
                                        THEN router_lst.items[k] ELSE ZeroRouter],
                          !.capacity = new_cap,
                          !.ptr = "heap"]
                 ELSE router_lst
    IN  IF full /\ ~realloc_ok
        THEN [ret |-> 0, lst |-> router_lst, oob |-> FALSE]
        ELSE IF grown.count >= grown.capacity
             THEN [ret |-> 1, lst |-> [grown EXCEPT !.count = grown.count + 1], oob |-> TRUE]
             ELSE [ret |-> 1,
                   lst |-> [grown EXCEPT !.items[grown.count + 1] = router,
                                         !.count = grown.count + 1],
                   oob |-> FALSE]

RECURSIVE first_same(_, _, _)
\* the scan shared by find_route and remove_route: the lowest C index i < count
\* with same_router(items[i], router), or -1
first_same(router_lst, router, i) ==
    IF i >= router_lst.count THEN -1
    ELSE IF same_router(router_lst.items[i + 1], router) THEN i
         ELSE first_same(router_lst, router, i + 1)

\* find_route that answers with the first entry of a non-empty table whatever the route:
\* the comparison of same_router left out
find_route_any(router_lst, router) == IF router_lst.count > 0 THEN 0 ELSE -1

RECURSIVE last_same(_, _, _)
\* the scan of remove_route run from the end of the table: the highest C index i <= the
\* start index with same_router(items[i], router), or -1
last_same(router_lst, router, i) ==
    IF i < 0 THEN -1
    ELSE IF same_router(router_lst.items[i + 1], router) THEN i
         ELSE last_same(router_lst, router, i - 1)

\* find_route that scans from the end of the table: the last equal route wins
find_route_last(router_lst, router) == last_same(router_lst, router, router_lst.count - 1)

\* int find_route(RouterList *router_lst, Router router)
find_route(router_lst, router) == first_same(router_lst, router, 0)

\* remove_route that fills the hole with the last entry instead of shifting
remove_route_swap(router_lst, router) ==
    LET i == first_same(router_lst, router, 0)
        n == router_lst.count
    IN  IF i = -1 THEN [ret |-> 0, lst |-> router_lst]
        ELSE [ret |-> 1,
              lst |-> [router_lst EXCEPT
                          !.items = [k \in 1..Len(router_lst.items) |->
                                        IF k = n THEN ZeroRouter
                                        ELSE IF k = i + 1 THEN router_lst.items[n]
                                        ELSE router_lst.items[k]],
                          !.count = n - 1]]

\* remove_route that takes out the last equal route instead of the first
remove_route_last(router_lst, router) ==
    LET i == last_same(router_lst, router, router_lst.count - 1)
        n == router_lst.count
    IN  IF i = -1 THEN [ret |-> 0, lst |-> router_lst]
        ELSE [ret |-> 1,
              lst |-> [router_lst EXCEPT
                          !.items = [k \in 1..Len(router_lst.items) |->
                                        IF k >= i + 1 /\ k < n THEN router_lst.items[k + 1]
                                        ELSE IF k = n THEN ZeroRouter
                                        ELSE router_lst.items[k]],
                          !.count = n - 1]]

\* int remove_route(RouterList *router_lst, Router router)
remove_route(router_lst, router) ==
    LET i == first_same(router_lst, router, 0)
        n == router_lst.count
    IN  IF i = -1 THEN [ret |-> 0, lst |-> router_lst]
        ELSE [ret |-> 1,
              lst |-> [router_lst EXCEPT
                          !.items = [k \in 1..Len(router_lst.items) |->
                                        IF k >= i + 1 /\ k < n THEN router_lst.items[k + 1]
                                        ELSE IF k = n THEN ZeroRouter
                                        ELSE router_lst.items[k]],
                          !.count = n - 1]]

\* the method a request line's first token names; an unrecognized verb leaves the
\* memset value 0 in router.method (routers.c:136-148)
method_of(token) ==
    IF token = <<"G", "E", "T">> THEN GET
    ELSE IF token = <<"P", "O", "S", "T">> THEN POST
    ELSE IF token = <<"P", "U", "T">> THEN PUT
    ELSE IF token = <<"D", "E", "L", "E", "T", "E">> THEN DELETE
    ELSE 0

\* the FAIL-tagged Router of extract_router's early returns
FailRouter == Router(FAIL, NullStr, NullHandler)

\* extract_router that reads the method and the path from the last extracted line
extract_router_last_line(header) ==
    LET extracted_lines == extract_lines(header, strlen(header))
    IN  IF extracted_lines.null THEN [ub |-> FALSE, router |-> FailRouter]
        ELSE IF Len(extracted_lines.list) = 0 THEN [ub |-> TRUE, router |-> FailRouter]
        ELSE LET last == extracted_lines.list[Len(extracted_lines.list)]
                 header_sep == split(last, strlen(last), SP)
             IN  IF header_sep.null THEN [ub |-> FALSE, router |-> FailRouter]
                 ELSE IF Len(header_sep.list) < 2
                      THEN [ub |-> TRUE,
                            router |-> Router(method_of(header_sep.list[1]), NullStr,
                                              NullHandler)]
                      ELSE [ub |-> FALSE,
                            router |-> Router(method_of(header_sep.list[1]),
                                              header_sep.list[2], NullHandler)]

\* Router extract_router(const char *header).  ub: the call dereferences a NULL
\* pointer (strlen(extracted_lines[0]) with no line, strdup(header_sep[1]) with one token).
extract_router(header) ==
    LET extracted_lines == extract_lines(header, strlen(header))
    IN  IF extracted_lines.null THEN [ub |-> FALSE, router |-> FailRouter]
        ELSE IF Len(extracted_lines.list) = 0 THEN [ub |-> TRUE, router |-> FailRouter]
        ELSE LET header_sep == split(extracted_lines.list[1],
                                     strlen(extracted_lines.list[1]), SP)
             IN  IF header_sep.null THEN [ub |-> FALSE, router |-> FailRouter]
                 ELSE IF Len(header_sep.list) < 2
                      THEN [ub |-> TRUE,
                            router |-> Router(method_of(header_sep.list[1]), NullStr,
                                              NullHandler)]
                      ELSE [ub |-> FALSE,
                            router |-> Router(method_of(header_sep.list[1]),
                                              header_sep.list[2], NullHandler)]

\* what extract_router allocates and frees before it returns (routers.c:111-162): the
\* list of lines, the list of tokens, and the copy of the path strdup makes.  On the
\* paths that dereference NULL nothing is freed: the call does not return.
extract_router_memory(header) ==
    LET extracted_lines == extract_lines(header, strlen(header))
    IN  IF extracted_lines.null THEN [allocs |-> <<>>, frees |-> <<>>]
        ELSE IF Len(extracted_lines.list) = 0
        THEN [allocs |-> <<"extracted_lines">>, frees |-> <<>>]
        ELSE LET header_sep == split(extracted_lines.list[1],
                                     strlen(extracted_lines.list[1]), SP)
             IN  IF header_sep.null
                 THEN [allocs |-> <<"extracted_lines">>, frees |-> <<"extracted_lines">>]
                 ELSE IF Len(header_sep.list) < 2
                      THEN [allocs |-> <<"extracted_lines", "header_sep">>, frees |-> <<>>]
                      ELSE [allocs |-> <<"extracted_lines", "header_sep", "path">>,
                            frees |-> <<"extracted_lines", "header_sep">>]

(***************************************************************************)
(* handlers.c and the response constructor                                 *)
(***************************************************************************)
\* char *add_http_header(const char *body, size_t len): status line, Content-Length,
\* a connection header, a blank line and the body; NULL when the allocation fails
add_http_header(body, len, alloc_ok) ==
    IF ~alloc_ok THEN [null |-> TRUE]
    ELSE [null |-> FALSE, status_line |-> "HTTP/1.1 200 OK", content_length |-> len,
          connection |-> "unspecified", body |-> body]

\* the fallback response of server_start (server.c:315-317)
not_found ==
    [null |-> FALSE, status_line |-> "HTTP/1.1 404 Not Found", content_length |-> 0,
     connection |-> "close", body |-> <<>>]

\* execute_handler that reports success once the response is built, whatever write returns
execute_handler_ignore_write(header, client_sock, handler, handler_str, alloc_ok, sent) ==
    IF client_sock = -1 \/ handler = NullHandler
    THEN [ret |-> 0, calls |-> 0, wrote |-> <<>>, allocs |-> <<>>, frees |-> <<>>]
    ELSE IF handler_str = NullStr
    THEN [ret |-> 0, calls |-> 1, wrote |-> <<>>, allocs |-> <<>>, frees |-> <<>>]
    ELSE LET response == add_http_header(handler_str, strlen(handler_str), alloc_ok)
         IN  IF response.null
             THEN [ret |-> 0, calls |-> 1, wrote |-> <<>>,
                   allocs |-> <<"handler_str">>, frees |-> <<"handler_str">>]
             ELSE [ret |-> 1, calls |-> 1,
                   wrote |-> <<[fd |-> client_sock, data |-> response, sent |-> sent]>>,
                   allocs |-> <<"handler_str", "response">>,
                   frees |-> <<"handler_str", "response">>]

\* execute_handler that checks the response before it frees the handler's text, and
\* so returns without freeing the text when the response cannot be built
execute_handler_late_free(header, client_sock, handler, handler_str, alloc_ok, sent) ==
    IF client_sock = -1 \/ handler = NullHandler
    THEN [ret |-> 0, calls |-> 0, wrote |-> <<>>, allocs |-> <<>>, frees |-> <<>>]
    ELSE IF handler_str = NullStr
    THEN [ret |-> 0, calls |-> 1, wrote |-> <<>>, allocs |-> <<>>, frees |-> <<>>]
    ELSE LET response == add_http_header(handler_str, strlen(handler_str), alloc_ok)
         IN  IF response.null
             THEN [ret |-> 0, calls |-> 1, wrote |-> <<>>,
                   allocs |-> <<"handler_str">>, frees |-> <<>>]
             ELSE [ret |-> IF sent > 0 THEN 1 ELSE 0, calls |-> 1,
                   wrote |-> <<[fd |-> client_sock, data |-> response, sent |-> sent]>>,
                   allocs |-> <<"handler_str", "response">>,
                   frees |-> <<"handler_str", "response">>]

\* int execute_handler(const char *header, int client_sock, HandlerFunc handler).
\* handler_str: what the handler returns when called; sent: what write returns.
\* calls: the number of times the handler was invoked; wrote: the write calls made;
\* allocs: the blocks it came to own, the handler's text and the response, in the
\* order it got them; frees: its calls of free, in order.
execute_handler(header, client_sock, handler, handler_str, alloc_ok, sent) ==
    IF client_sock = -1 \/ handler = NullHandler
    THEN [ret |-> 0, calls |-> 0, wrote |-> <<>>, allocs |-> <<>>, frees |-> <<>>]
    ELSE IF handler_str = NullStr
    THEN [ret |-> 0, calls |-> 1, wrote |-> <<>>, allocs |-> <<>>, frees |-> <<>>]
    ELSE LET response == add_http_header(handler_str, strlen(handler_str), alloc_ok)
         IN  IF response.null
             THEN [ret |-> 0, calls |-> 1, wrote |-> <<>>,
                   allocs |-> <<"handler_str">>, frees |-> <<"handler_str">>]
             ELSE [ret |-> IF sent > 0 THEN 1 ELSE 0, calls |-> 1,
                   wrote |-> <<[fd |-> client_sock, data |-> response, sent |-> sent]>>,
                   allocs |-> <<"handler_str", "response">>,
                   frees |-> <<"handler_str", "response">>]

\* process_header that runs the handler and drops what execute_handler returns
process_header_drop_ret(header, client_sock, router_lst, handler_str, alloc_ok, sent) ==
    LET extracted_router == extract_router(header).router
        index == find_route(router_lst, extracted_router)
    IN  IF extracted_router.method = FAIL
        THEN [ret |-> 0, calls |-> 0, wrote |-> <<>>, index |-> -1, handler |-> NullHandler]
        ELSE IF index = -1
        THEN [ret |-> 0, calls |-> 0, wrote |-> <<>>, index |-> -1, handler |-> NullHandler]
        ELSE LET h == router_lst.items[index + 1].handler
                 r == execute_handler(header, client_sock, h, handler_str[h], alloc_ok, sent)
             IN  [ret |-> 0, calls |-> r.calls, wrote |-> r.wrote, index |-> index,
                  handler |-> h]

\* int process_header(const char *header, int client_sock, RouterList *router_lst).
\* Defined where extract_router has no undefined behaviour.
process_header(header, client_sock, router_lst, handler_str, alloc_ok, sent) ==
    LET extracted_router == extract_router(header).router
        index == find_route(router_lst, extracted_router)
    IN  IF extracted_router.method = FAIL
        THEN [ret |-> 0, calls |-> 0, wrote |-> <<>>, index |-> -1, handler |-> NullHandler]
        ELSE IF index = -1
        THEN [ret |-> 0, calls |-> 0, wrote |-> <<>>, index |-> -1, handler |-> NullHandler]
        ELSE LET h == router_lst.items[index + 1].handler
                 r == execute_handler(header, client_sock, h, handler_str[h], alloc_ok, sent)
             IN  [ret |-> r.ret, calls |-> r.calls, wrote |-> r.wrote, index |-> index,
                  handler |-> h]

\* what one call of process_header allocates and frees (routers.c:179-192): what
\* extract_router does, then what execute_handler does when a route matches.
\* process_header itself frees nothing.
process_header_memory(header, client_sock, router_lst, handler_str, alloc_ok, sent) ==
    LET x == extract_router(header)
        m == extract_router_memory(header)
        index == find_route(router_lst, x.router)
    IN  IF x.ub \/ x.router.method = FAIL \/ index = -1 THEN m
        ELSE LET h == router_lst.items[index + 1].handler
                 r == execute_handler(header, client_sock, h, handler_str[h], alloc_ok, sent)
             IN  [allocs |-> m.allocs \o r.allocs, frees |-> m.frees \o r.frees]

(***************************************************************************)
(* The inputs of a run: routes, handlers and request buffers.              *)
(***************************************************************************)
PathA == <<"/", "a">>
PathB == <<"/", "b">>

\* the application's handlers
Handlers == {"h1", "h2"}

\* the text each handler returns when its allocation succeeds
HandlerBody(h) == IF h = "h1" THEN <<"H", "e", "l", "l", "o">> ELSE <<"o", "k">>

\* the routes the application may register
RouteChoices == {Router(GET, PathA, "h1"), Router(POST, PathA, "h2")}

\* the routes of a run that exercises only the route table: two of them are equal in
\* method and path and differ in their handler
TableRouteChoices == RouteChoices \cup {Router(GET, PathA, "h2")}

\* the (method, path) pairs the application may unregister
RemoveChoices == {<<GET, PathA>>, <<POST, PathA>>, <<GET, PathB>>}

\* "GET /a H" CR LF CR LF
ReqGetA == <<"G", "E", "T", SP, "/", "a", SP, "H", CR, LF, CR, LF>>
\* "GET /b H" CR LF "K: v" CR LF CR LF
ReqGetB == <<"G", "E", "T", SP, "/", "b", SP, "H", CR, LF, "K", ":", SP, "v", CR, LF, CR, LF>>
\* "get /a H" CR LF CR LF: a verb outside the method vocabulary
ReqBadVerb == <<"g", "e", "t", SP, "/", "a", SP, "H", CR, LF, CR, LF>>
\* "GET" CR LF CR LF: a first line with one token
ReqOneToken == <<"G", "E", "T", CR, LF, CR, LF>>
\* CR LF: an empty first line
ReqBlank == <<CR, LF>>

\* the chunks a peer may send
Requests == {ReqGetA, ReqGetB, ReqBadVerb, ReqOneToken, ReqBlank}

\* what may follow the bytes read in the stack slot of `buffer`, which read does not
\* terminate: a NUL at once, or bytes an earlier pass left there
StaleTails == {<<>>, <<"x", CR, LF>>}

\* what write may return: an error, no byte, or a positive count
WriteResults == {-1, 0, 1}

\* what can happen inside execute_handler once a handler is called: the handler
\* returns NULL, add_http_header returns NULL, or write returns one of WriteResults
HandlerOutcomes ==
    {[handler_fails |-> TRUE, alloc_ok |-> TRUE, sent |-> 0],
     [handler_fails |-> FALSE, alloc_ok |-> FALSE, sent |-> 0]}
    \cup {[handler_fails |-> FALSE, alloc_ok |-> TRUE, sent |-> w] : w \in WriteResults}

\* the outcome recorded for a request that calls no handler
NoHandlerOutcome == [handler_fails |-> FALSE, alloc_ok |-> TRUE, sent |-> 1]

(***************************************************************************)
(* server.c: the state                                                     *)
(***************************************************************************)
VARIABLES
    pc,           \* where the application is: setup, then the steps of server_start
    running,      \* volatile sig_atomic_t running
    max_clients,  \* server->max_clients
    client_lst,   \* server->client_lst: slot -> [client_sock, addr, router_lst]
    num_clients,  \* server_start's local num_clients
    sock_set,     \* server_start's local sock_set, as select left it
    scan_i,       \* the index i of the per-client loop
    ret,          \* what server_start returned
    heap,         \* the server's allocations: live or freed
    listen_open,  \* whether server->sockfd is an open descriptor
    fds,          \* the process's client descriptors and the connection behind each
    pending,      \* connections the peers have opened that accept has not returned yet
    events,       \* events of the peers so far
    registered,   \* the routes registered on the server and not unregistered, in order
    app,          \* the globals of the application that owns the handlers
    ev            \* the last step's observable effects

vars == <<pc, running, max_clients, client_lst, num_clients, sock_set, scan_i, ret, heap,
          listen_open, fds, pending, events, registered, app, ev>>

\* an application without globals
NoApp == [users |-> <<>>, user_count |-> 0, next_id |-> 0, deleted_ids |-> {}]

\* the descriptors accept can return
FdRange == (ListenFd + 1)..(ListenFd + MaxEvents)

Slots == 0..(max_clients - 1)

\* a descriptor that is not open
ClosedFd == [open |-> FALSE, inbox |-> <<>>, peer_closed |-> FALSE,
             reset |-> FALSE, served |-> 0]

\* the address accept fills in for a connection: the peers are not told apart by it
PeerAddr == "peer"

\* a client record after memset(&client, 0, sizeof(client_t))
ZeroClient == [client_sock |-> 0, addr |-> 0, router_lst |-> ZeroRouterList]

NoEv == [kind |-> "none", slot |-> -1, fd |-> 0,
         route |-> ZeroRouter, table |-> ZeroRouterList, ret |-> 0, calls |-> 0,
         wrote |-> <<>>, removed |-> FALSE, handler |-> NullHandler,
         index |-> -1, handler_str |-> NullStr, alloc_ok |-> TRUE, sent |-> 0,
         req |-> <<>>, ub |-> FALSE, before |-> <<>>, served |-> 0,
         mode |-> DEV, addr |-> "none", result |-> "none", input |-> <<>>,
         output |-> <<>>, fail |-> [step |-> "none", index |-> 0], unread |-> {}]

\* the state server_init leaves (server.c:103-174) for each max_clients
Init ==
    /\ app = NoApp
    /\ pc = "setup"
    /\ running = 0
    /\ max_clients \in 1..MaxClientsBound
    /\ client_lst = [s \in 0..(max_clients - 1) |->
                        [client_sock |-> 0, addr |-> 0, router_lst |-> NewRouterList]]
    /\ num_clients = 0
    /\ sock_set = {}
    /\ scan_i = 0
    /\ ret = 0
    /\ heap = [server |-> "live", client_lst |-> "live",
               items |-> [s \in 0..(max_clients - 1) |-> "live"], double_free |-> FALSE,
               double_close |-> FALSE, closed_again |-> FALSE]
    /\ listen_open = TRUE
    /\ fds = [f \in FdRange |-> ClosedFd]
    /\ pending = 0
    /\ events = 0
    /\ registered = <<>>
    /\ ev = NoEv

\* the process before the application calls server_init: nothing allocated, no socket
LifeInit ==
    /\ app = NoApp
    /\ pc = "start"
    /\ running = 0
    /\ max_clients \in 1..MaxClientsBound
    /\ client_lst = [s \in 0..(max_clients - 1) |-> ZeroClient]
    /\ num_clients = 0
    /\ sock_set = {}
    /\ scan_i = 0
    /\ ret = 0
    /\ heap = [server |-> "none", client_lst |-> "none",
               items |-> [s \in 0..(max_clients - 1) |-> "none"], double_free |-> FALSE,
               double_close |-> FALSE, closed_again |-> FALSE]
    /\ listen_open = FALSE
    /\ fds = [f \in FdRange |-> ClosedFd]
    /\ pending = 0
    /\ events = 0
    /\ registered = <<>>
    /\ ev = NoEv

(***************************************************************************)
(* server.c: helpers                                                       *)
(***************************************************************************)
\* free(ptr) of a route table's storage: a no-op on NULL, a double free when the
\* storage is no longer live
free_items(h, index, ptr) ==
    IF ptr = "NULL" THEN h
    ELSE IF h.items[index] = "live" THEN [h EXCEPT !.items[index] = "freed"]
    ELSE [h EXCEPT !.double_free = TRUE]

\* whether fd is an open client socket of the process
is_open(fdtab, fd) == fd \in DOMAIN fdtab /\ fdtab[fd].open

\* close(fd) on the process's descriptor table
close(fdtab, fd) == IF fd \in DOMAIN fdtab THEN [fdtab EXCEPT ![fd] = ClosedFd] ELSE fdtab

\* remove_client that closes the socket and frees the table but leaves the record as
\* it is: the memset left out
remove_client_keep_record(st, index) ==
    IF index < 0 \/ index >= max_clients THEN st
    ELSE [client_lst |-> st.client_lst,
          fds |-> close(st.fds, st.client_lst[index].client_sock),
          heap |-> [free_items(st.heap, index, st.client_lst[index].router_lst.ptr)
                       EXCEPT !.closed_again =
                           @ \/ ~is_open(st.fds, st.client_lst[index].client_sock)]]

\* void remove_client(Server *server, int index), on st = [client_lst, fds, heap];
\* closed_again: close was given the handle of a record that holds no open client
\* socket (a handle closed before, or the 0 of a zeroed record)
remove_client(st, index) ==
    IF index < 0 \/ index >= max_clients THEN st
    ELSE [client_lst |-> [st.client_lst EXCEPT ![index] = ZeroClient],
          fds |-> close(st.fds, st.client_lst[index].client_sock),
          heap |-> [free_items(st.heap, index, st.client_lst[index].router_lst.ptr)
                       EXCEPT !.closed_again =
                           @ \/ ~is_open(st.fds, st.client_lst[index].client_sock)]]

RECURSIVE remove_tracked_all(_, _)
\* the cleanup loop without its test of client_sock > 0: every slot is removed
remove_tracked_all(st, i) ==
    IF i >= max_clients THEN st
    ELSE remove_tracked_all(remove_client(st, i), i + 1)

RECURSIVE remove_tracked(_, _)
\* the cleanup loop of server_start (server.c:329-333) from slot i on
remove_tracked(st, i) ==
    IF i >= max_clients THEN st
    ELSE IF st.client_lst[i].client_sock > 0
         THEN remove_tracked(remove_client(st, i), i + 1)
         ELSE remove_tracked(st, i + 1)

RECURSIVE free_tables(_, _)
\* the loop of server_free (server.c:191-194) from slot j on
free_tables(st, j) ==
    IF j >= max_clients THEN st
    ELSE free_tables(
             [st EXCEPT !.heap = free_items(st.heap, j, st.client_lst[j].router_lst.ptr),
                        !.client_lst[j].router_lst.ptr = "NULL"], j + 1)

\* free(p) of one of the server's two records
free_record(h, field) ==
    IF h[field] = "live" THEN [h EXCEPT ![field] = "freed"]
    ELSE [h EXCEPT !.double_free = TRUE]

\* void server_free(Server *server), on st = [client_lst, fds, heap]; the listening
\* socket is closed by the caller of this operator
server_free(st) ==
    LET t == free_tables(st, 0)
    IN  [t EXCEPT !.heap = free_record(free_record(t.heap, "client_lst"), "server")]

\* the close(server->sockfd) of server_free (server.c:188-190) on sock = [open,
\* double_close]: skipped when the field is -1, a second close when the descriptor
\* is no longer open
close_sockfd(sock, sockfd) ==
    IF sockfd = -1 THEN sock
    ELSE IF sock.open THEN [sock EXCEPT !.open = FALSE]
    ELSE [sock EXCEPT !.double_close = TRUE]

\* the steps of server_init that can fail, in their order; "none": no step fails
InitSteps == {"server", "client_lst", "items", "socket", "setsockopt", "bind", "none"}

\* the failures server_init can meet: the step and, for the route storage, the client
InitFailures ==
    {[step |-> s, index |-> 0] : s \in InitSteps \ {"items"}}
    \cup {[step |-> "items", index |-> k] : k \in Slots}

RECURSIVE free_first(_, _, _)
\* the loop of server_init's failure path (server.c:129-132) from slot j up to i - 1
free_first(st, j, i) ==
    IF j >= i THEN st
    ELSE free_first(
             [st EXCEPT !.heap = free_items(st.heap, j, st.client_lst[j].router_lst.ptr),
                        !.client_lst[j].router_lst.ptr = "NULL"], j + 1, i)

\* server_init whose failure path for the route storage frees the client array and
\* the server record but not the tables already allocated
server_init_leak(h, fail) ==
    LET k == IF fail.step = "items" THEN fail.index ELSE max_clients
        built == [client_lst |-> [s \in Slots |->
                                     IF s < k THEN [ZeroClient EXCEPT !.router_lst = NewRouterList]
                                     ELSE ZeroClient],
                  fds |-> fds,
                  heap |-> [h EXCEPT !.server = "live", !.client_lst = "live",
                                     !.items = [s \in Slots |->
                                                   IF s < k THEN "live" ELSE h.items[s]]]]
        gone == [built EXCEPT !.heap = free_record(free_record(built.heap, "client_lst"),
                                                   "server")]
        none == [open |-> FALSE, double_close |-> h.double_close]
    IN  IF fail.step = "none"
        THEN [result |-> "server", st |-> built, addr |-> INADDR_ANY,
              sock |-> [none EXCEPT !.open = TRUE]]
        ELSE [result |-> "NULL", st |-> gone, addr |-> "none", sock |-> none]

\* Server *server_init(int port, int max_clients, int backlog) on the heap h, meeting
\* the failure fail: what it returns, the memory, the listening socket, and the
\* address it binds
server_init_steps(h, fail) ==
    LET k == IF fail.step = "items" THEN fail.index ELSE max_clients
        zero == [client_lst |-> [s \in Slots |-> ZeroClient], fds |-> fds, heap |-> h]
        built == [client_lst |-> [s \in Slots |->
                                     IF s < k THEN [ZeroClient EXCEPT !.router_lst = NewRouterList]
                                     ELSE ZeroClient],
                  fds |-> fds,
                  heap |-> [h EXCEPT !.server = "live", !.client_lst = "live",
                                     !.items = [s \in Slots |->
                                                   IF s < k THEN "live" ELSE h.items[s]]]]
        none == [open |-> FALSE, double_close |-> h.double_close]
        opened == [none EXCEPT !.open = TRUE]
    IN  CASE fail.step = "server" ->
                 [result |-> "NULL", st |-> zero, addr |-> "none", sock |-> none]
          [] fail.step = "client_lst" ->
                 [result |-> "NULL",
                  st |-> [zero EXCEPT !.heap = free_record([h EXCEPT !.server = "live"],
                                                           "server")],
                  addr |-> "none", sock |-> none]
          [] fail.step = "items" ->
                 LET f == free_first(built, 0, k)
                 IN  [result |-> "NULL",
                      st |-> [f EXCEPT !.heap = free_record(free_record(f.heap, "client_lst"),
                                                            "server")],
                      addr |-> "none", sock |-> none]
          [] fail.step = "socket" ->
                 [result |-> "NULL", st |-> server_free(built), addr |-> "none",
                  sock |-> close_sockfd(none, -1)]
          [] fail.step = "setsockopt" ->
                 [result |-> "NULL", st |-> server_free(built), addr |-> "none",
                  sock |-> close_sockfd(opened, ListenFd)]
          [] fail.step = "bind" ->
                 [result |-> "NULL", st |-> server_free(built), addr |-> "none",
                  sock |-> close_sockfd(opened, ListenFd)]
          [] OTHER ->
                 [result |-> "server", st |-> built, addr |-> INADDR_ANY, sock |-> opened]

\* int client_add_route(RouterList *routers, method_t method, path_t path, HandlerFunc handler)
client_add_route(routers, method, path, handler, realloc_ok) ==
    add_route(routers, Router(method, path, handler), realloc_ok)

\* the lowest descriptor that is not open: what accept returns
lowest_free(fdtab) == CHOOSE f \in DOMAIN fdtab :
                          /\ ~fdtab[f].open
                          /\ \A g \in DOMAIN fdtab : ~fdtab[g].open => f <= g

\* the accept branch storing the connection at index num_clients instead of looking
\* for a slot whose handle is 0
first_free_slot_count(n, i) == IF n >= max_clients THEN -1 ELSE n

RECURSIVE first_free_slot(_, _)
\* the slot loop of the accept branch (server.c:275-285): the slot that takes the new
\* connection, or -1
first_free_slot(n, i) ==
    IF i >= max_clients \/ n >= max_clients THEN -1
    ELSE IF client_lst[i].client_sock = 0 THEN i
         ELSE first_free_slot(n, i + 1)

\* whether select reports descriptor fd readable
readable(fd) == fds[fd].open /\ (fds[fd].inbox # <<>> \/ fds[fd].peer_closed \/ fds[fd].reset)

\* the descriptors server_start puts in sock_set that select reports ready
ready_set ==
    (IF pending > 0 THEN {ListenFd} ELSE {})
    \cup {f \in FdRange : (\E s \in Slots : client_lst[s].client_sock = f) /\ readable(f)}

\* a sequence without its first element equal in method and path to (method, path)
RECURSIVE without_first(_, _, _)
without_first(seq, method, path) ==
    IF seq = <<>> THEN <<>>
    ELSE IF Head(seq).method = method /\ Head(seq).path = path THEN Tail(seq)
         ELSE <<Head(seq)>> \o without_first(Tail(seq), method, path)

\* The peers' events are taken while the program is at the readiness wait: one that
\* arrives during a pass is seen by the reads of that pass or by the next wait exactly
\* as if it had arrived before the wait.
AtWait == pc = "select"

(***************************************************************************)
(* server.c: server_init                                                   *)
(***************************************************************************)
\* Server *server_init(int port, int max_clients, int backlog), called by the
\* application as the facade declares it, with a binding mode; the definition takes
\* no mode and sets INADDR_ANY (server.c:147)
server_init(mode, fail) ==
    /\ pc = "start"
    /\ LET r == server_init_steps(heap, fail)
       IN  /\ client_lst' = r.st.client_lst
           /\ heap' = [r.st.heap EXCEPT !.double_close = r.sock.double_close]
           /\ listen_open' = r.sock.open
           /\ pc' = IF r.result = "NULL" THEN "init_failed" ELSE "setup"
           /\ ev' = [NoEv EXCEPT !.kind = "server_init", !.mode = mode, !.fail = fail,
                                 !.result = r.result, !.addr = r.addr]
    /\ UNCHANGED <<running, max_clients, app, num_clients, sock_set, scan_i, ret, fds, pending,
                   events, registered>>

(***************************************************************************)
(* The application before server_start: route registration.  The facade's  *)
(* server_add_route and server_remove_route have no definition in the      *)
(* sources; server_start resolves a request against the route table of the *)
(* client record it reads from (server.c:313), so a route registered on    *)
(* the server is stored in every client record's table.                    *)
(***************************************************************************)
\* int server_add_route(Server *server, method_t method, path_t path, HandlerFunc handler)
server_add_route(method, path, handler, realloc_ok) ==
    /\ pc = "setup"
    /\ LET res == [s \in Slots |->
                      client_add_route(client_lst[s].router_lst, method, path, handler,
                                       realloc_ok)]
           ok == \A s \in Slots : res[s].ret = 1
       IN  /\ client_lst' = IF ok
                            THEN [s \in Slots |-> [client_lst[s] EXCEPT !.router_lst = res[s].lst]]
                            ELSE client_lst
           /\ registered' = IF ok THEN Append(registered, Router(method, path, handler))
                            ELSE registered
           /\ ev' = [NoEv EXCEPT !.kind = "add_route", !.ret = IF ok THEN 1 ELSE 0,
                                 !.route = Router(method, path, handler),
                                 !.table = client_lst[0].router_lst,
                                 !.before = client_lst]
    /\ UNCHANGED <<pc, running, max_clients, app, num_clients, sock_set, scan_i, ret, heap,
                   listen_open, fds, pending, events>>

\* int server_remove_route(Server *server, method_t method, path_t path)
server_remove_route(method, path) ==
    /\ pc = "setup"
    /\ LET res == [s \in Slots |->
                      remove_route(client_lst[s].router_lst, Router(method, path, NullHandler))]
           found == \E s \in Slots : res[s].ret = 1
       IN  /\ client_lst' = [s \in Slots |-> [client_lst[s] EXCEPT !.router_lst = res[s].lst]]
           /\ registered' = without_first(registered, method, path)
           /\ ev' = [NoEv EXCEPT !.kind = "remove_route", !.ret = IF found THEN 1 ELSE 0,
                                 !.route = Router(method, path, NullHandler),
                                 !.table = client_lst[0].router_lst,
                                 !.before = client_lst]
    /\ UNCHANGED <<pc, running, max_clients, app, num_clients, sock_set, scan_i, ret, heap,
                   listen_open, fds, pending, events>>

(***************************************************************************)
(* server.c: server_start                                                  *)
(***************************************************************************)
\* the start of server_start with the server_free(server) of its failure path
\* (server.c:223) in force: a failed listen frees the server before returning -1
Listen_frees(ok) ==
    /\ pc = "setup"
    /\ pc' = IF ok THEN "sigaction" ELSE "returned"
    /\ ret' = IF ok THEN ret ELSE -1
    /\ ev' = [NoEv EXCEPT !.kind = "listen", !.result = IF ok THEN "ok" ELSE "failed"]
    /\ LET st == server_free([client_lst |-> client_lst, fds |-> fds, heap |-> heap])
       IN  /\ client_lst' = IF ok THEN client_lst ELSE st.client_lst
           /\ heap' = IF ok THEN heap ELSE st.heap
           /\ listen_open' = IF ok THEN listen_open ELSE FALSE
    /\ UNCHANGED <<running, max_clients, app, num_clients, sock_set, scan_i,
                   fds, pending, events, registered>>

\* listen(server->sockfd, server->backlog) (server.c:221-225)
Listen(ok) ==
    /\ pc = "setup"
    /\ pc' = IF ok THEN "sigaction" ELSE "returned"
    /\ ret' = IF ok THEN ret ELSE -1
    /\ ev' = [NoEv EXCEPT !.kind = "listen", !.result = IF ok THEN "ok" ELSE "failed"]
    /\ UNCHANGED <<running, max_clients, app, client_lst, num_clients, sock_set, scan_i, heap,
                   listen_open, fds, pending, events, registered>>

\* sigaction(SIGINT, &newact, NULL) (server.c:228-237)
Sigaction(ok) ==
    /\ pc = "sigaction"
    /\ pc' = IF ok THEN "set_running" ELSE "returned"
    /\ ret' = IF ok THEN ret ELSE -1
    /\ ev' = [NoEv EXCEPT !.kind = "sigaction", !.result = IF ok THEN "ok" ELSE "failed"]
    /\ UNCHANGED <<running, max_clients, app, client_lst, num_clients, sock_set, scan_i, heap,
                   listen_open, fds, pending, events, registered>>

\* running = 1 (server.c:240)
SetRunning ==
    /\ pc = "set_running"
    /\ running' = 1
    /\ pc' = "test"
    /\ ev' = NoEv
    /\ UNCHANGED <<max_clients, app, client_lst, num_clients, sock_set, scan_i, ret, heap,
                   listen_open, fds, pending, events, registered>>

\* while (running) (server.c:242) and, when the flag is set, FD_ZERO, FD_SET and the
\* max_fd loop (server.c:244-256): the program is then about to call select
LoopTest ==
    /\ pc = "test"
    /\ pc' = IF running # 0 THEN "select" ELSE "cleanup"
    /\ sock_set' = IF running # 0 THEN {} ELSE sock_set
    /\ ev' = NoEv
    /\ UNCHANGED <<running, max_clients, app, client_lst, num_clients, scan_i, ret, heap,
                   listen_open, fds, pending, events, registered>>

\* select returns with the ready descriptors (server.c:259); it blocks while none is ready
Select ==
    /\ pc = "select"
    /\ ready_set # {}
    /\ sock_set' = ready_set
    /\ pc' = "accept"
    /\ ev' = NoEv
    /\ UNCHANGED <<running, max_clients, app, client_lst, num_clients, scan_i, ret, heap,
                   listen_open, fds, pending, events, registered>>

\* the descriptors select reported ready that belong to the clients of the slots
\* after slot i: the clients the per-client loop has not come to when it stops at
\* slot i (server.c:288-290)
left_unread(i) ==
    {client_lst[s].client_sock : s \in {t \in Slots : t > i}} \cap (sock_set \ {ListenFd})

\* the accept branch (server.c:265-286); ok: accept returned a descriptor
Accept(ok) ==
    /\ pc = "accept"
    /\ IF ListenFd \notin sock_set
       THEN /\ pc' = "scan"
            /\ scan_i' = 0
            /\ ev' = NoEv
            /\ UNCHANGED <<client_lst, num_clients, fds, pending, sock_set>>
       ELSE IF ~ok
       THEN /\ pc' = "test"
            /\ pending' = pending - 1
            /\ sock_set' = {}
            /\ ev' = [NoEv EXCEPT !.kind = "accept_failed", !.unread = left_unread(-1)]
            /\ UNCHANGED <<client_lst, num_clients, fds, scan_i>>
       ELSE LET new_socket == lowest_free(fds)
                client_addr == PeerAddr
                slot == first_free_slot(num_clients, 0)
            IN  /\ fds' = [fds EXCEPT ![new_socket] =
                              [ClosedFd EXCEPT !.open = TRUE]]
                /\ pending' = pending - 1
                /\ IF slot = -1
                   THEN UNCHANGED <<client_lst, num_clients>>
                   ELSE /\ num_clients' = num_clients + 1
                        /\ client_lst' = [client_lst EXCEPT
                                             ![slot].client_sock = new_socket,
                                             ![slot].addr = client_addr]
                /\ ev' = [NoEv EXCEPT !.kind = "accept", !.slot = slot, !.fd = new_socket,
                                      !.before = client_lst]
                /\ pc' = "scan"
                /\ scan_i' = 0
                /\ UNCHANGED sock_set
    /\ UNCHANGED <<running, max_clients, app, ret, heap, listen_open, events, registered>>

\* a per-client loop that goes back to the accept branch after each client
ScanNext_accept_again(break) ==
    IF break \/ scan_i + 1 >= max_clients
    THEN /\ pc' = "test"
         /\ scan_i' = 0
         /\ sock_set' = {}
    ELSE /\ pc' = "accept"
         /\ scan_i' = scan_i + 1
         /\ UNCHANGED sock_set

\* where the per-client loop goes after slot scan_i: the next slot, or the loop test
\* when the scan ends or breaks.  sock_set is read from select's return to the end of
\* the pass and rebuilt before the next select: it is kept empty in between.
ScanNext(break) ==
    IF break \/ scan_i + 1 >= max_clients
    THEN /\ pc' = "test"
         /\ scan_i' = 0
         /\ sock_set' = {}
    ELSE /\ pc' = "scan"
         /\ scan_i' = scan_i + 1
         /\ UNCHANGED sock_set

\* one pass of the per-client loop's body on a slot whose descriptor is not in sock_set
ScanSkip ==
    /\ pc = "scan"
    /\ client_lst[scan_i].client_sock \notin sock_set
    /\ ScanNext(FALSE)
    /\ ev' = NoEv
    /\ UNCHANGED <<running, max_clients, app, client_lst, num_clients, ret, heap,
                   listen_open, fds, pending, events, registered>>

\* read returns 0: the peer disconnected (server.c:292-295)
ScanEof ==
    /\ pc = "scan"
    /\ client_lst[scan_i].client_sock \in sock_set
    /\ LET fd == client_lst[scan_i].client_sock
           st == remove_client([client_lst |-> client_lst, fds |-> fds, heap |-> heap], scan_i)
       IN  /\ ~fds[fd].reset /\ fds[fd].inbox = <<>> /\ fds[fd].peer_closed
           /\ client_lst' = st.client_lst
           /\ fds' = st.fds
           /\ heap' = st.heap
           /\ num_clients' = num_clients - 1
           /\ ev' = [NoEv EXCEPT !.kind = "eof", !.slot = scan_i, !.fd = fd,
                                 !.removed = TRUE,
                                 !.before = client_lst]
    /\ ScanNext(FALSE)
    /\ UNCHANGED <<running, max_clients, app, ret, listen_open, pending,
                   events, registered>>

\* read fails with an error other than EINTR, EAGAIN (server.c:303-309)
ScanReadError ==
    /\ pc = "scan"
    /\ client_lst[scan_i].client_sock \in sock_set
    /\ LET fd == client_lst[scan_i].client_sock
           st == remove_client([client_lst |-> client_lst, fds |-> fds, heap |-> heap], scan_i)
       IN  /\ fds[fd].reset
           /\ client_lst' = st.client_lst
           /\ fds' = st.fds
           /\ heap' = st.heap
           /\ num_clients' = num_clients - 1
           /\ ev' = [NoEv EXCEPT !.kind = "read_error", !.slot = scan_i, !.fd = fd,
                                 !.removed = TRUE,
                                 !.before = client_lst,
                                 !.unread = left_unread(scan_i)]
    /\ ScanNext(TRUE)
    /\ UNCHANGED <<running, max_clients, app, ret, listen_open, pending,
                   events, registered>>

\* read returns a positive count (server.c:311-323): process_header, then the
\* fallback response and remove_client when it returns 0.  The buffer is not
\* terminated after the bytes read: tail is what follows them up to the first NUL.
\* o is the outcome of the handler's allocation, of add_http_header's and of write.
ScanRequest(tail, o) ==
    /\ pc = "scan"
    /\ client_lst[scan_i].client_sock \in sock_set
    /\ LET fd == client_lst[scan_i].client_sock
           req == Head(fds[fd].inbox)
           header == req \o tail
           x == extract_router(header)
           handler_str == [h \in Handlers |-> IF o.handler_fails THEN NullStr ELSE HandlerBody(h)]
           r == process_header(header, fd, client_lst[scan_i].router_lst, handler_str,
                               o.alloc_ok, o.sent)
           fallback == IF r.ret = 0 THEN <<[fd |-> fd, data |-> not_found]>> ELSE <<>>
           st0 == [client_lst |-> client_lst,
                   fds |-> [fds EXCEPT ![fd].inbox = Tail(fds[fd].inbox),
                                       ![fd].served = IF r.ret = 0 THEN @ ELSE @ + 1],
                   heap |-> heap]
           st == IF r.ret = 0 THEN remove_client(st0, scan_i) ELSE st0
       IN  /\ ~fds[fd].reset /\ fds[fd].inbox # <<>>
           /\ r.calls = 0 => o = NoHandlerOutcome
           /\ client_lst' = st.client_lst
           /\ fds' = st.fds
           /\ heap' = st.heap
           /\ ev' = [NoEv EXCEPT
                        !.kind = "dispatch", !.slot = scan_i, !.fd = fd,
                        !.req = req,
                        !.ub = x.ub, !.route = x.router,
                        !.table = client_lst[scan_i].router_lst,
                        !.ret = r.ret, !.calls = r.calls, !.index = r.index,
                        !.handler = r.handler,
                        !.handler_str = IF r.calls = 1 THEN handler_str[r.handler] ELSE NullStr,
                        !.alloc_ok = o.alloc_ok,
                        !.sent = IF r.wrote # <<>> THEN o.sent ELSE 0,
                        !.wrote = [k \in 1..Len(r.wrote) |->
                                      [fd |-> r.wrote[k].fd, data |-> r.wrote[k].data]]
                                  \o fallback,
                        !.removed = (r.ret = 0),
                        !.before = client_lst, !.served = fds[fd].served]
    /\ ScanNext(FALSE)
    /\ UNCHANGED <<running, max_clients, app, num_clients, ret, listen_open, pending,
                   events, registered>>

\* read returns a positive count and extract_router dereferences a NULL pointer
\* (routers.c:121, routers.c:150): the process is killed
ScanCrash(tail) ==
    /\ pc = "scan"
    /\ client_lst[scan_i].client_sock \in sock_set
    /\ LET fd == client_lst[scan_i].client_sock
           req == Head(fds[fd].inbox)
           header == req \o tail
       IN  /\ ~fds[fd].reset /\ fds[fd].inbox # <<>>
           /\ extract_router(header).ub
           /\ fds' = [fds EXCEPT ![fd].inbox = Tail(fds[fd].inbox)]
           /\ ev' = [NoEv EXCEPT !.kind = "crash", !.slot = scan_i, !.fd = fd,
                                 !.req = req,
                                 !.ub = TRUE, !.before = client_lst,
                                 !.served = fds[fd].served]
    /\ pc' = "crashed"
    /\ UNCHANGED <<running, max_clients, app, client_lst, num_clients, sock_set, scan_i, ret,
                   heap, listen_open, pending, events, registered>>

\* the cleanup after the loop (server.c:328-335): remove_client on every tracked
\* client, server_free, return 1
Cleanup ==
    /\ pc = "cleanup"
    /\ LET st == server_free(remove_tracked(
                     [client_lst |-> client_lst, fds |-> fds, heap |-> heap], 0))
       IN  /\ client_lst' = st.client_lst
           /\ fds' = st.fds
           /\ heap' = st.heap
    /\ listen_open' = FALSE
    /\ ret' = 1
    /\ pc' = "returned"
    /\ ev' = [NoEv EXCEPT !.kind = "shutdown"]
    /\ UNCHANGED <<running, max_clients, app, num_clients, sock_set, scan_i, pending,
                   events, registered>>

\* server_free(server) called by the application: after server_init, or after
\* server_start has returned, as the file header prescribes (server.c:23-37).  After
\* server_start returned 1 the record is already freed: the call reads freed memory,
\* and either the process dies in it (crash) or it goes on with what the memory held.
CallServerFree(crash) ==
    /\ pc \in {"setup", "returned"}
    /\ crash => heap.server # "live"
    /\ LET st == server_free([client_lst |-> client_lst, fds |-> fds, heap |-> heap])
           sock == close_sockfd([open |-> listen_open, double_close |-> heap.double_close],
                                ListenFd)
       IN  IF crash
           THEN /\ pc' = "crashed"
                /\ UNCHANGED <<client_lst, heap, listen_open>>
           ELSE /\ pc' = "freed"
                /\ client_lst' = st.client_lst
                /\ heap' = [st.heap EXCEPT !.double_close = sock.double_close]
                /\ listen_open' = sock.open
    /\ ev' = [NoEv EXCEPT !.kind = "server_free", !.before = heap,
                          !.result = IF crash THEN "crash" ELSE "done"]
    /\ UNCHANGED <<running, max_clients, app, num_clients, sock_set, scan_i, ret, fds, pending,
                   events, registered>>

(***************************************************************************)
(* The environment: the interrupt signal and the peers.                    *)
(***************************************************************************)
\* void handler_sigint(int signum), run when SIGINT is delivered after sigaction
\* installed it.  in_select: the signal finds the program blocked in select, which
\* returns -1 with EINTR, and the loop continues (server.c:259-262); otherwise it finds
\* the program between two calls, and at "select" that is before select is entered.
\* Inside the loop a signal that finds the flag already 0 between two calls changes
\* nothing; before running = 1 (server.c:240) the flag is 0 as well, and the handler's
\* write is the one the assignment overwrites.  A delivery that leaves the flag as it
\* was is recorded in ev: the flag does not show it.
Sigint(in_select) ==
    /\ pc \in {"set_running", "test", "select", "accept", "scan"}
    /\ IF in_select THEN pc = "select" ELSE (running # 0 \/ pc = "set_running")
    /\ running' = 0
    /\ pc' = IF in_select THEN "test" ELSE pc
    /\ ev' = IF running = 0 THEN [NoEv EXCEPT !.kind = "sigint"] ELSE NoEv
    /\ UNCHANGED <<max_clients, app, client_lst, num_clients, sock_set, scan_i, ret, heap,
                   listen_open, fds, pending, events, registered>>

\* a peer connects to the listening socket
Connect ==
    /\ AtWait
    /\ events < MaxEvents
    /\ events' = events + 1
    /\ pending' = pending + 1
    /\ ev' = NoEv
    /\ UNCHANGED <<pc, running, max_clients, app, client_lst, num_clients, sock_set, scan_i, ret,
                   heap, listen_open, fds, registered>>

\* the descriptors of the tracked clients
Tracked == {f \in FdRange : \E s \in Slots : client_lst[s].client_sock = f}

\* the peer of a tracked connection sends a chunk
Send(fd, req) ==
    /\ AtWait
    /\ fd \in Tracked
    /\ fds[fd].open /\ ~fds[fd].peer_closed /\ ~fds[fd].reset /\ fds[fd].inbox = <<>>
    /\ events < MaxEvents
    /\ events' = events + 1
    /\ fds' = [fds EXCEPT ![fd].inbox = <<req>>]
    /\ ev' = NoEv
    /\ UNCHANGED <<pc, running, max_clients, app, client_lst, num_clients, sock_set, scan_i, ret,
                   heap, listen_open, pending, registered>>

\* the peer of a tracked connection closes it
PeerClose(fd) ==
    /\ AtWait
    /\ fd \in Tracked
    /\ fds[fd].open /\ ~fds[fd].peer_closed /\ ~fds[fd].reset
    /\ events < MaxEvents
    /\ events' = events + 1
    /\ fds' = [fds EXCEPT ![fd].peer_closed = TRUE]
    /\ ev' = NoEv
    /\ UNCHANGED <<pc, running, max_clients, app, client_lst, num_clients, sock_set, scan_i, ret,
                   heap, listen_open, pending, registered>>

\* a tracked connection is reset: the next read on it fails
PeerReset(fd) ==
    /\ AtWait
    /\ fd \in Tracked
    /\ fds[fd].open /\ ~fds[fd].peer_closed /\ ~fds[fd].reset
    /\ events < MaxEvents
    /\ events' = events + 1
    /\ fds' = [fds EXCEPT ![fd].reset = TRUE]
    /\ ev' = NoEv
    /\ UNCHANGED <<pc, running, max_clients, app, client_lst, num_clients, sock_set, scan_i, ret,
                   heap, listen_open, pending, registered>>

(***************************************************************************)
(* The specification.                                                      *)
(***************************************************************************)
\* the steps of the program
ServerStep ==
    \/ \E ok \in BOOLEAN : Listen(ok)
    \/ \E ok \in BOOLEAN : Sigaction(ok)
    \/ SetRunning
    \/ LoopTest
    \/ Select
    \/ \E ok \in BOOLEAN : Accept(ok)
    \/ ScanSkip
    \/ ScanEof
    \/ ScanReadError
    \/ \E tail \in StaleTails, o \in HandlerOutcomes : ScanRequest(tail, o)
    \/ \E tail \in StaleTails : ScanCrash(tail)
    \/ Cleanup

Next ==
    \/ \E r \in RouteChoices, ok \in BOOLEAN :
           Len(registered) < MaxRoutes /\ server_add_route(r.method, r.path, r.handler, ok)
    \/ \E mp \in RemoveChoices : server_remove_route(mp[1], mp[2])
    \/ ServerStep
    \/ \E in_select \in BOOLEAN : Sigint(in_select)
    \/ Connect
    \/ \E fd \in FdRange, req \in Requests : Send(fd, req)
    \/ \E fd \in FdRange : PeerClose(fd)
    \/ \E fd \in FdRange : PeerReset(fd)

Spec == Init /\ [][Next]_vars

\* the program keeps taking its steps; the peers and the signal owe nothing
FairSpec == Spec /\ WF_vars(ServerStep)

\* the application before server_start, registering and unregistering routes
RouteNext ==
    \/ \E r \in TableRouteChoices, ok \in BOOLEAN :
           Len(registered) < MaxTableRoutes
           /\ server_add_route(r.method, r.path, r.handler, ok)
    \/ \E mp \in RemoveChoices : server_remove_route(mp[1], mp[2])

RouteSpec == Init /\ [][RouteNext]_vars

(***************************************************************************)
(* routers.c called directly on one route table: the table of a client     *)
(* record as server_init builds it.                                        *)
(***************************************************************************)
\* the owner of one route table of capacity 4 and count 0
TableInit ==
    /\ app = NoApp
    /\ pc = "table"
    /\ running = 0
    /\ max_clients = 1
    /\ client_lst = [s \in 0..(max_clients - 1) |->
                        [client_sock |-> 0, addr |-> 0, router_lst |-> NewRouterList]]
    /\ num_clients = 0
    /\ sock_set = {}
    /\ scan_i = 0
    /\ ret = 0
    /\ heap = [server |-> "live", client_lst |-> "live",
               items |-> [s \in 0..(max_clients - 1) |-> "live"], double_free |-> FALSE,
               double_close |-> FALSE, closed_again |-> FALSE]
    /\ listen_open = TRUE
    /\ fds = [f \in FdRange |-> ClosedFd]
    /\ pending = 0
    /\ events = 0
    /\ registered = <<>>
    /\ ev = NoEv

\* the routes added to the table: three with different (method, path), and one equal
\* to the first with another handler
DirectRouteChoices ==
    {Router(GET, PathA, "h1"), Router(POST, PathA, "h2"), Router(GET, PathB, "h1"),
     Router(GET, PathA, "h2")}

\* the routes searched for and removed: as extract_router builds them, with no handler
SearchChoices ==
    {Router(GET, PathA, NullHandler), Router(POST, PathA, NullHandler),
     Router(GET, PathB, NullHandler), Router(DELETE, PathA, NullHandler)}

\* a call on the table that leaves everything else alone; registered follows the
\* successful calls
TableStep(e, table, routes) ==
    /\ pc = "table"
    /\ pc' = "table_called"
    /\ ev' = e
    /\ client_lst' = [client_lst EXCEPT ![0].router_lst = table]
    /\ registered' = routes
    /\ UNCHANGED <<running, max_clients, app, num_clients, sock_set, scan_i, ret, heap,
                   listen_open, fds, pending, events>>

\* the owner of the table goes on after a call
TableReturn ==
    /\ pc = "table_called"
    /\ pc' = "table"
    /\ ev' = NoEv
    /\ UNCHANGED <<running, max_clients, app, client_lst, num_clients, sock_set, scan_i, ret,
                   heap, listen_open, fds, pending, events, registered>>

\* add_route(&table, router)
TableAdd(router, realloc_ok) ==
    LET old == client_lst[0].router_lst
        r == add_route(old, router, realloc_ok)
    IN  /\ Len(registered) < MaxDirectRoutes
        /\ TableStep([NoEv EXCEPT !.kind = "table_add", !.route = router, !.ret = r.ret,
                                  !.table = old, !.ub = r.oob, !.alloc_ok = realloc_ok],
                     r.lst,
                     IF r.ret = 1 THEN Append(registered, router) ELSE registered)

\* remove_route(&table, router)
TableRemove(router) ==
    LET old == client_lst[0].router_lst
        r == remove_route(old, router)
    IN  TableStep([NoEv EXCEPT !.kind = "table_remove", !.route = router, !.ret = r.ret,
                               !.table = old],
                  r.lst,
                  without_first(registered, router.method, router.path))

\* find_route(&table, router)
TableFind(router) ==
    LET old == client_lst[0].router_lst
    IN  TableStep([NoEv EXCEPT !.kind = "table_find", !.route = router,
                               !.index = find_route(old, router), !.table = old],
                  old, registered)

\* process_header(header, client_sock, &table) with handlers that return their text
TableDispatch(req) ==
    LET old == client_lst[0].router_lst
        r == process_header(req, ListenFd + 1, old, [h \in Handlers |-> HandlerBody(h)],
                            TRUE, 1)
    IN  TableStep([NoEv EXCEPT !.kind = "table_dispatch", !.req = req, !.ret = r.ret,
                               !.calls = r.calls, !.wrote = r.wrote, !.index = r.index,
                               !.handler = r.handler, !.table = old],
                  old, registered)

TableNext ==
    \/ \E router \in DirectRouteChoices, realloc_ok \in BOOLEAN : TableAdd(router, realloc_ok)
    \/ \E router \in SearchChoices : TableRemove(router)
    \/ \E router \in SearchChoices \cup DirectRouteChoices : TableFind(router)
    \/ \E req \in {ReqGetA, ReqGetB} : TableDispatch(req)
    \/ TableReturn

TableSpec == TableInit /\ [][TableNext]_vars

(***************************************************************************)
(* The JSON API demo: the handlers of its user routes and the globals they  *)
(* keep.  Each action is one request for a route of the demo, for which the *)
(* server calls the route's handler once.                                  *)
(***************************************************************************)
\* a handler's response: NULL when malloc fails, else the JSON text's fields
NoResponse == [null |-> TRUE, error |-> "", message |-> "", id |-> 0]

ErrorResponse(error) == [null |-> FALSE, error |-> error, message |-> "", id |-> 0]

MessageResponse(message, id) == [null |-> FALSE, error |-> "", message |-> message, id |-> id]

\* an entry of the static array users before anything is stored in it
ZeroUser == [id |-> 0, name |-> "", email |-> ""]

\* User users[10]; int user_count = 0; int next_id = 1;
DemoApp ==
    [users |-> [i \in 0..(UserCapacity - 1) |-> ZeroUser], user_count |-> 0, next_id |-> 1,
     deleted_ids |-> {}]

\* post_users_handler that refuses only above the capacity
post_users_handler_late_limit(a, alloc_ok) ==
    IF ~alloc_ok THEN [app |-> a, response |-> NoResponse]
    ELSE IF a.user_count > UserCapacity
    THEN [app |-> a, response |-> ErrorResponse("Maximum number of users reached")]
    ELSE LET b == [a EXCEPT !.users = [i \in DOMAIN a.users |->
                                          IF i = a.user_count
                                          THEN [id |-> a.next_id, name |-> "New User",
                                                email |-> "newuser@example.com"]
                                          ELSE a.users[i]],
                            !.next_id = a.next_id + 1,
                            !.user_count = a.user_count + 1]
         IN  [app |-> b,
              response |-> MessageResponse("User created successfully", a.next_id)]

\* char *post_users_handler(void)
post_users_handler(a, alloc_ok) ==
    IF ~alloc_ok THEN [app |-> a, response |-> NoResponse]
    ELSE IF a.user_count >= UserCapacity
    THEN [app |-> a, response |-> ErrorResponse("Maximum number of users reached")]
    ELSE LET b == [a EXCEPT !.users[a.user_count] =
                                [id |-> a.next_id, name |-> "New User",
                                 email |-> "newuser@example.com"],
                            !.next_id = a.next_id + 1,
                            !.user_count = a.user_count + 1]
         IN  [app |-> b,
              response |-> MessageResponse("User created successfully",
                                           b.users[b.user_count - 1].id)]

\* char *put_users_handler(void)
put_users_handler(a, alloc_ok) ==
    IF ~alloc_ok THEN [app |-> a, response |-> NoResponse]
    ELSE IF a.user_count > 0
    THEN LET b == [a EXCEPT !.users[0].name = "Updated User",
                            !.users[0].email = "updated@example.com"]
         IN  [app |-> b,
              response |-> MessageResponse("User updated successfully", b.users[0].id)]
    ELSE [app |-> a, response |-> ErrorResponse("No users to update")]

\* the loop of delete_users_handler: users[i] = users[i + 1] for i < user_count - 1;
\* the entry at user_count - 1 keeps what it held
shift_left(users, user_count) ==
    [i \in DOMAIN users |-> IF i < user_count - 1 THEN users[i + 1] ELSE users[i]]

\* delete_users_handler that hands the freed id back to the counter
delete_users_handler_recycle(a, alloc_ok) ==
    IF ~alloc_ok THEN [app |-> a, response |-> NoResponse]
    ELSE IF a.user_count > 0
    THEN LET deleted_id == a.users[0].id
             b == [a EXCEPT !.users = shift_left(a.users, a.user_count),
                            !.user_count = a.user_count - 1,
                            !.next_id = a.next_id - 1]
         IN  [app |-> b,
              response |-> MessageResponse("User deleted successfully", deleted_id)]
    ELSE [app |-> a, response |-> ErrorResponse("No users to delete")]

\* char *delete_users_handler(void)
delete_users_handler(a, alloc_ok) ==
    IF ~alloc_ok THEN [app |-> a, response |-> NoResponse]
    ELSE IF a.user_count > 0
    THEN LET deleted_id == a.users[0].id
             b == [a EXCEPT !.users = shift_left(a.users, a.user_count),
                            !.user_count = a.user_count - 1]
         IN  [app |-> b,
              response |-> MessageResponse("User deleted successfully", deleted_id)]
    ELSE [app |-> a, response |-> ErrorResponse("No users to delete")]

\* the demo after main has registered its routes and started the server
DemoInit ==
    /\ app = DemoApp
    /\ pc = "demo"
    /\ running = 1
    /\ max_clients = 1
    /\ client_lst = [s \in 0..(max_clients - 1) |-> ZeroClient]
    /\ num_clients = 0
    /\ sock_set = {}
    /\ scan_i = 0
    /\ ret = 0
    /\ heap = [server |-> "live", client_lst |-> "live",
               items |-> [s \in 0..(max_clients - 1) |-> "live"], double_free |-> FALSE,
               double_close |-> FALSE, closed_again |-> FALSE]
    /\ listen_open = TRUE
    /\ fds = [f \in FdRange |-> ClosedFd]
    /\ pending = 0
    /\ events = 0
    /\ registered = <<>>
    /\ ev = NoEv

\* a request for a route of the demo: its handler runs once on the globals.
\* deleted_ids is not in the program: the ids that deletes have freed so far.
DemoRequest(kind, r, alloc_ok) ==
    /\ pc = "demo"
    /\ pc' = "demo_called"
    /\ app' = [r.app EXCEPT !.deleted_ids =
                   IF kind = "delete_users" /\ r.response.message # ""
                   THEN @ \cup {r.response.id} ELSE @]
    /\ ev' = [NoEv EXCEPT !.kind = kind, !.before = app, !.output = r.response,
                          !.alloc_ok = alloc_ok]
    /\ UNCHANGED <<running, max_clients, client_lst, num_clients, sock_set, scan_i, ret,
                   heap, listen_open, fds, pending, events, registered>>

\* POST /api/users; the id counter is kept below MaxNextId
DemoPost(alloc_ok) ==
    /\ app.next_id < MaxNextId
    /\ DemoRequest("post_users", post_users_handler(app, alloc_ok), alloc_ok)

\* PUT /api/users
DemoPut(alloc_ok) == DemoRequest("put_users", put_users_handler(app, alloc_ok), alloc_ok)

\* DELETE /api/users
DemoDelete(alloc_ok) ==
    DemoRequest("delete_users", delete_users_handler(app, alloc_ok), alloc_ok)

\* the server goes on to the next request
DemoReturn ==
    /\ pc = "demo_called"
    /\ pc' = "demo"
    /\ ev' = NoEv
    /\ UNCHANGED <<running, max_clients, app, client_lst, num_clients, sock_set, scan_i,
                   ret, heap, listen_open, fds, pending, events, registered>>

DemoNext ==
    \/ \E alloc_ok \in BOOLEAN : DemoPost(alloc_ok)
    \/ \E alloc_ok \in BOOLEAN : DemoPut(alloc_ok)
    \/ \E alloc_ok \in BOOLEAN : DemoDelete(alloc_ok)
    \/ DemoReturn

DemoSpec == DemoInit /\ [][DemoNext]_vars

\* the life of a server without peers: server_init, route registration, server_start
\* until it fails or an interrupt ends it, and the application's server_free
LifeNext ==
    \/ \E mode \in {DEV, PROD}, fail \in InitFailures : server_init(mode, fail)
    \/ \E r \in RouteChoices, ok \in BOOLEAN :
           Len(registered) < MaxRoutes /\ server_add_route(r.method, r.path, r.handler, ok)
    \/ \E mp \in RemoveChoices : server_remove_route(mp[1], mp[2])
    \/ \E ok \in BOOLEAN : Listen(ok)
    \/ \E ok \in BOOLEAN : Sigaction(ok)
    \/ SetRunning
    \/ LoopTest
    \/ \E in_select \in BOOLEAN : Sigint(in_select)
    \/ Cleanup
    \/ \E crash \in BOOLEAN : CallServerFree(crash)

LifeSpec == LifeInit /\ [][LifeNext]_vars

(***************************************************************************)
(* Vocabulary of the properties.                                           *)
(***************************************************************************)
\* the names of the method vocabulary
MethodNames == {<<"G", "E", "T">>, <<"P", "O", "S", "T">>, <<"P", "U", "T">>,
                <<"D", "E", "L", "E", "T", "E">>}

\* the space-separated tokens of the first line of a request text
request_line(text) ==
    LET lines == extract_lines(text, Len(text))
    IN  IF lines.null \/ lines.list = <<>> THEN <<>>
        ELSE split(lines.list[1], Len(lines.list[1]), SP).list

\* the request line names a method of the vocabulary and a path
WellFormed(text) ==
    Len(request_line(text)) >= 2 /\ request_line(text)[1] \in MethodNames

\* the (method, path) a well-formed request names
Target(text) == Router(method_of(request_line(text)[1]), request_line(text)[2], NullHandler)

\* the positions of seq whose route equals r in method and path
Matching(seq, r) == {k \in 1..Len(seq) : seq[k].method = r.method /\ seq[k].path = r.path}

\* the least element of a non-empty set of integers
Least(S) == CHOOSE x \in S : \A y \in S : x <= y

\* the entries of a route table, in order
Entries(t) == SubSeq(t.items, 1, t.count)

\* seq without its element at position i
Without(seq, i) == SubSeq(seq, 1, i - 1) \o SubSeq(seq, i + 1, Len(seq))

\* the fallback response written on descriptor fd
Fallback(fd) ==
    [fd |-> fd,
     data |-> [null |-> FALSE, status_line |-> "HTTP/1.1 404 Not Found",
               content_length |-> 0, connection |-> "close", body |-> <<>>]]

\* the positions of server_start inside its dispatch loop
LoopPcs == {"test", "select", "accept", "scan"}

\* the last step handled a positive read: it resolved the request, or died resolving it
Handled == ev.kind \in {"dispatch", "crash"}

(***************************************************************************)
(* The library called directly: each action is one call of a function of   *)
(* utils.c, routers.c or handlers.c on an input, and leaves the input and  *)
(* what the call produced in ev.                                           *)
(***************************************************************************)
\* a process that has no server and calls the library
CallInit ==
    /\ app = NoApp
    /\ pc = "call"
    /\ running = 0
    /\ max_clients = 1
    /\ client_lst = [s \in 0..(max_clients - 1) |-> ZeroClient]
    /\ num_clients = 0
    /\ sock_set = {}
    /\ scan_i = 0
    /\ ret = 0
    /\ heap = [server |-> "none", client_lst |-> "none",
               items |-> [s \in 0..(max_clients - 1) |-> "none"], double_free |-> FALSE,
               double_close |-> FALSE, closed_again |-> FALSE]
    /\ listen_open = FALSE
    /\ fds = [f \in FdRange |-> ClosedFd]
    /\ pending = 0
    /\ events = 0
    /\ registered = <<>>
    /\ ev = NoEv

\* a call that touches nothing of the process but what it returns
Called(kind, input, output) ==
    /\ pc = "call"
    /\ pc' = "called"
    /\ ev' = [NoEv EXCEPT !.kind = kind, !.input = input, !.output = output]
    /\ UNCHANGED <<running, max_clients, app, client_lst, num_clients, sock_set, scan_i, ret,
                   heap, listen_open, fds, pending, events, registered>>

\* the connection handles execute_handler is given: none, and an open descriptor
ClientSocks == {-1, ListenFd + 1}

\* what a handler returns: no text, an empty text, a text
HandlerTexts == {NullStr, <<>>, HandlerBody("h1")}

\* execute_handler(header, client_sock, handler)
CallExecuteHandler(client_sock, handler, handler_str, alloc_ok, sent) ==
    Called("execute_handler",
           [client_sock |-> client_sock, handler |-> handler, handler_str |-> handler_str,
            alloc_ok |-> alloc_ok, sent |-> sent],
           execute_handler(ReqGetA, client_sock, handler, handler_str, alloc_ok, sent))

\* the bytes of a request whose first line is METHOD SP PATH SP VERSION CRLF and
\* that goes on with rest
request_of(method, path, version, rest) ==
    method \o <<SP>> \o path \o <<SP>> \o version \o <<CR, LF>> \o rest

\* request targets: tokens without a space and without a CR-LF pair
PathChoices == {PathA, <<"/", "a", "/", "b">>, <<"/", CR>>, <<>>}

\* protocol versions: tokens without a space and without a CR-LF pair
VersionChoices == {<<"H">>, <<"H", CR>>, <<>>}

\* what follows the request line: nothing, the empty line, header lines and the empty
\* line, a header line that names another method and path, an unterminated segment,
\* an empty line and a body
RestChoices ==
    {<<>>,
     <<CR, LF>>,
     <<"K", ":", SP, "v", CR, LF, CR, LF>>,
     <<"P", "U", "T", SP, "/", "b", SP, "H", CR, LF, CR, LF>>,
     <<"x">>,
     <<CR, LF, "P", "U", "T", SP, "/", "b">>}

\* extract_router(header) on a request made of its parts
CallExtractRouter(method, path, version, rest) ==
    Called("extract_router",
           [method |-> method, path |-> path, version |-> version, rest |-> rest,
            header |-> request_of(method, path, version, rest)],
           extract_router(request_of(method, path, version, rest)))

\* the pieces raw buffers are made of: a method name, a path, and the three bytes the
\* parsers look for
Pieces == {<<"G", "E", "T">>, <<"/", "a">>, <<SP>>, <<CR>>, <<LF>>}

RECURSIVE Concats(_)
\* the buffers made of at most n pieces
Concats(n) ==
    IF n = 0 THEN {<<>>}
    ELSE LET shorter == Concats(n - 1)
         IN  shorter \cup {b \o piece : b \in shorter, piece \in Pieces}

\* the raw buffers: NUL-terminated texts of any shape
Buffers == Concats(MaxPieces)

\* extract_router(header) on a raw buffer
CallExtractRouterRaw(header) ==
    Called("extract_router_raw", [header |-> header], extract_router(header))

\* the tokens split's buffers are made of: none holds a separator
TokenChoices == {<<>>, <<"a">>, <<"b", "c">>}

\* the separators
SepChoices == {SP, ","}

\* the sequences of 1 to n tokens
TokenSeqs(n) == UNION {[1..k -> TokenChoices] : k \in 1..n}

RECURSIVE Join(_, _)
\* the tokens in order with one separator between two neighbours
Join(tokens, sep) ==
    IF Len(tokens) = 1 THEN tokens[1]
    ELSE tokens[1] \o <<sep>> \o Join(Tail(tokens), sep)

\* split(buffer, buff_size, sep) on the buffer that joins the tokens
CallSplit(tokens, sep) ==
    Called("split", [tokens |-> tokens, sep |-> sep, buffer |-> Join(tokens, sep)],
           split(Join(tokens, sep), Len(Join(tokens, sep)), sep))

\* split(NULL, buff_size, sep)
CallSplitAbsent(buff_size, sep) ==
    Called("split_absent", [buff_size |-> buff_size, sep |-> sep],
           split(NullStr, buff_size, sep))

\* non-empty lines: none holds a CR-LF pair; one ends with CR, one starts with LF
LineChoices == {<<"a">>, <<"b", CR>>, <<LF, "c">>}

\* the sequences of 0 to n lines
LineSeqs(n) == UNION {[1..k -> LineChoices] : k \in 0..n}

\* what follows the empty line: nothing, bytes, an empty line, a line, a lone LF
TrailingChoices == {<<>>, <<"x">>, <<CR, LF>>, <<"x", CR, LF>>, <<LF>>}

\* non-empty unterminated segments: none holds a CR-LF pair
SegmentChoices == {<<"x">>, <<"y", CR>>, <<LF>>, <<CR>>}

RECURSIVE Terminated(_)
\* the lines in order, each followed by CR LF
Terminated(lines) ==
    IF lines = <<>> THEN <<>>
    ELSE Head(lines) \o <<CR, LF>> \o Terminated(Tail(lines))

\* extract_lines(buffer, buff_size) on terminated lines, an empty line and trailing bytes
CallExtractLinesHeader(lines, trailing) ==
    LET buffer == Terminated(lines) \o <<CR, LF>> \o trailing
    IN  Called("extract_lines_header",
               [lines |-> lines, trailing |-> trailing, buffer |-> buffer],
               extract_lines(buffer, Len(buffer)))

\* extract_lines(buffer, buff_size) on terminated lines and an unterminated segment
CallExtractLinesPartial(lines, segment) ==
    LET buffer == Terminated(lines) \o segment
    IN  Called("extract_lines_partial",
               [lines |-> lines, segment |-> segment, buffer |-> buffer],
               extract_lines(buffer, Len(buffer)))

\* the chunks one read may return: whole requests, and the first bytes of ReqGetA when
\* the rest has not arrived yet
ReadChunks == Requests \cup {SubSeq(ReqGetA, 1, n) : n \in {3, 6, 8, 10}}

\* what the stack slot of `buffer` may hold after the bytes read: StaleTails, and the
\* end of a longer request read into it in an earlier pass
StaleChoices == StaleTails \cup {SubSeq(ReqGetB, n, Len(ReqGetB)) : n \in {7, 11}}

\* the positive-read branch up to the parsing (server.c:290-311, routers.c:180): read
\* puts chunk at the start of buffer and process_header hands buffer to
\* extract_router, which takes everything up to the first NUL as the header
CallReadRequest(chunk, tail) ==
    Called("read_request", [chunk |-> chunk, tail |-> tail], extract_router(chunk \o tail))

\* the buffers process_header is called on: one that names the registered route, one
\* that names no registered route, and the empty buffer, which resolves to FAIL
ProcessChoices == {ReqGetA, ReqGetB, <<>>}

\* process_header(header, client_sock, &table) on a table that holds GET /a
CallProcessHeader(header, handler_fails, alloc_ok, sent) ==
    LET table == add_route(NewRouterList, Router(GET, PathA, "h1"), TRUE).lst
        handler_str == [h \in Handlers |-> IF handler_fails THEN NullStr ELSE HandlerBody(h)]
        r == process_header(header, ListenFd + 1, table, handler_str, alloc_ok, sent)
        m == process_header_memory(header, ListenFd + 1, table, handler_str, alloc_ok, sent)
    IN  Called("process_header",
               [header |-> header, handler_fails |-> handler_fails, alloc_ok |-> alloc_ok,
                sent |-> sent],
               [ret |-> r.ret, calls |-> r.calls, route |-> extract_router(header).router,
                allocs |-> m.allocs, frees |-> m.frees])

CallNext ==
    \/ \E header \in ProcessChoices, handler_fails \in BOOLEAN, alloc_ok \in BOOLEAN,
          sent \in WriteResults : CallProcessHeader(header, handler_fails, alloc_ok, sent)
    \/ \E chunk \in ReadChunks, tail \in StaleChoices : CallReadRequest(chunk, tail)
    \/ \E lines \in LineSeqs(MaxLines), trailing \in TrailingChoices :
           CallExtractLinesHeader(lines, trailing)
    \/ \E lines \in LineSeqs(MaxLines), segment \in SegmentChoices :
           CallExtractLinesPartial(lines, segment)
    \/ \E tokens \in TokenSeqs(MaxTokens), sep \in SepChoices : CallSplit(tokens, sep)
    \/ \E buff_size \in 0..1, sep \in SepChoices : CallSplitAbsent(buff_size, sep)
    \/ \E header \in Buffers : CallExtractRouterRaw(header)
    \/ \E method \in MethodNames, path \in PathChoices, version \in VersionChoices,
          rest \in RestChoices : CallExtractRouter(method, path, version, rest)
    \/ \E client_sock \in ClientSocks, handler \in Handlers \cup {NullHandler},
          handler_str \in HandlerTexts, alloc_ok \in BOOLEAN, sent \in WriteResults :
           CallExecuteHandler(client_sock, handler, handler_str, alloc_ok, sent)

CallSpec == CallInit /\ [][CallNext]_vars

(***************************************************************************)
(* Properties of the server run.                                           *)
(***************************************************************************)
\* C1: when a tracked client sends a request naming a registered route, the route's
\* handler is invoked once, and the response written to the client carries the
\* handler's output as its body and the output's byte length as its Content-Length.
C1_RegisteredRouteDispatched ==
    (Handled /\ WellFormed(ev.req) /\ Matching(registered, Target(ev.req)) # {}) =>
        LET h == registered[Least(Matching(registered, Target(ev.req)))].handler
        IN  /\ ev.calls = 1
            /\ ev.handler = h
            /\ (ev.handler_str # NullStr /\ ev.alloc_ok) =>
                  /\ ev.wrote # <<>>
                  /\ ev.wrote[1].fd = ev.fd
                  /\ ev.wrote[1].data.status_line = "HTTP/1.1 200 OK"
                  /\ ev.wrote[1].data.body = HandlerBody(h)
                  /\ ev.wrote[1].data.content_length = Len(HandlerBody(h))

\* C2: a well-formed request that names no registered route invokes no handler and is
\* answered with exactly the fallback response (404 Not Found, Content-Length 0,
\* Connection close, empty body); the server then closes the connection and its slot
\* holds a zeroed record.
C2_UnmatchedGetsFallback ==
    (Handled /\ WellFormed(ev.req) /\ Matching(registered, Target(ev.req)) = {}) =>
        /\ ev.kind = "dispatch"
        /\ ev.calls = 0
        /\ ev.wrote = <<Fallback(ev.fd)>>
        /\ ~fds[ev.fd].open
        /\ client_lst[ev.slot] = ZeroClient

\* a request for a path no route has was answered while a route was registered
C2_Witness ==
    /\ ev.kind = "dispatch"
    /\ ev.req = ReqGetB
    /\ registered # <<>>
    /\ ev.wrote = <<Fallback(ev.fd)>>
    /\ ev.before[ev.slot].client_sock = ev.fd
    /\ client_lst[ev.slot].client_sock = 0

\* C3: every route registered before the start is in the table a newly accepted
\* connection is resolved against, whichever slot takes the connection: also a slot
\* that an earlier client, since removed, occupied.
C3_RoutesSharedByAllConnections ==
    (ev.kind = "accept" /\ ev.slot # -1) =>
        \A k \in 1..Len(registered) :
            find_route(client_lst[ev.slot].router_lst, registered[k]) # -1

\* everything server_start releases before it returns 1
Released ==
    /\ \A s \in Slots : client_lst[s].client_sock = 0
    /\ \A s \in Slots : heap.items[s] = "freed"
    /\ heap.client_lst = "freed"
    /\ heap.server = "freed"
    /\ ~listen_open

\* C4: once the interrupt handler has cleared the running flag while server_start is
\* in its dispatch loop, server_start returns 1 with every tracked client closed and
\* the client array, the route tables and the listening socket released (or the
\* process has died on a request meanwhile).
C4_InterruptStopsLoop ==
    (pc \in LoopPcs /\ running = 0) ~>
        (pc = "crashed" \/ (pc = "returned" /\ ret = 1 /\ Released))

\* the slots that hold a client
Occupied == {s \in Slots : client_lst[s].client_sock # 0}

\* C5: for every max_clients, no more than max_clients clients are tracked; an accept
\* that finds no slot leaves every record as it was, and an accept that stores the
\* connection stores it in a slot that held no client and changes no other record.
C5_CapacityRespected ==
    /\ Cardinality(Occupied) <= max_clients
    /\ num_clients <= max_clients
    /\ (ev.kind = "accept") =>
          IF ev.slot = -1
          THEN client_lst = ev.before
          ELSE /\ ev.before[ev.slot].client_sock = 0
               /\ \A s \in Slots \ {ev.slot} : client_lst[s] = ev.before[s]

\* a connection was accepted while every slot held a client, with more than one slot
C5_Witness ==
    /\ ev.kind = "accept"
    /\ ev.slot = -1
    /\ max_clients > 1
    /\ \A s \in Slots : ev.before[s].client_sock # 0
    /\ fds[ev.fd].open

\* C6: a request whose first token is none of GET, POST, PUT, DELETE invokes no handler,
\* is answered with the fallback response and has its connection torn down, even when
\* a route with its path is registered for some method.
C6_UnknownVerbIsRejected ==
    (Handled /\ request_line(ev.req) # <<>> /\ request_line(ev.req)[1] \notin MethodNames) =>
        /\ ev.kind = "dispatch"
        /\ ev.calls = 0
        /\ ev.wrote = <<Fallback(ev.fd)>>
        /\ ~fds[ev.fd].open
        /\ client_lst[ev.slot] = ZeroClient

\* C7: when the matched handler returns no output, or the write of its response returns
\* a value <= 0, the request ends as an unmatched one does: the fallback response is
\* the last thing written, the client's socket is closed and its slot is zeroed.
C7_HandlerFailureIsFallback ==
    (ev.kind = "dispatch" /\ ev.calls = 1
       /\ (ev.handler_str = NullStr
           \/ (ev.handler_str # NullStr /\ ev.alloc_ok /\ ev.sent <= 0))) =>
        /\ ev.ret = 0
        /\ ev.wrote # <<>>
        /\ ev.wrote[Len(ev.wrote)] = Fallback(ev.fd)
        /\ Len(ev.wrote) = (IF ev.handler_str = NullStr THEN 1 ELSE 2)
        /\ ~fds[ev.fd].open
        /\ client_lst[ev.slot] = ZeroClient

\* the handler's response was built and its write failed
C7_Witness ==
    /\ ev.kind = "dispatch"
    /\ ev.calls = 1
    /\ ev.handler_str # NullStr
    /\ ev.sent = -1
    /\ Len(ev.wrote) = 2
    /\ ev.wrote[1].data.status_line = "HTTP/1.1 200 OK"
    /\ ~fds[ev.fd].open

\* C8: a failure while handling one client (a read error, a request that cannot be
\* parsed, an unmatched route, a handler or transmission failure) leaves server_start
\* in its dispatch loop and leaves every other client's record and socket as they were.
C8_FailureIsolated ==
    (ev.kind \in {"read_error", "crash"} \/ (ev.kind = "dispatch" /\ ev.ret = 0)) =>
        /\ pc \in LoopPcs
        /\ \A s \in Slots \ {ev.slot} :
              /\ client_lst[s] = ev.before[s]
              /\ ev.before[s].client_sock # 0 => fds[ev.before[s].client_sock].open

\* C9: after a dispatch whose response was written, the client's slot holds the record
\* it held, the socket is open and the client is not removed; and a later request on a
\* connection already served, naming a registered route, has the handler invoked again.
C9_ConnectionKeptAfterDispatch ==
    /\ (ev.kind = "dispatch" /\ ev.calls = 1 /\ ev.handler_str # NullStr /\ ev.alloc_ok
          /\ ev.sent > 0) =>
          /\ ev.ret = 1
          /\ ~ev.removed
          /\ client_lst[ev.slot] = ev.before[ev.slot]
          /\ client_lst[ev.slot].client_sock = ev.fd
          /\ fds[ev.fd].open
          /\ fds[ev.fd].served = ev.served + 1
    /\ (Handled /\ ev.served >= 1 /\ WellFormed(ev.req)
          /\ Matching(registered, Target(ev.req)) # {}) =>
          /\ ev.kind = "dispatch"
          /\ ev.calls = 1

\* a second request on one connection was dispatched with success
C9_Witness ==
    /\ ev.kind = "dispatch"
    /\ ev.served >= 1
    /\ ev.ret = 1
    /\ fds[ev.fd].served >= 2

\* C24: at the top of every iteration of the dispatch loop the active-client count
\* equals the number of slots that hold a non-zero socket handle.
C24_CountMatchesSlots ==
    (pc = "test") => (num_clients = Cardinality(Occupied))

\* the slots of a client array that hold no client
FreeSlots(clients) == {s \in Slots : clients[s].client_sock = 0}

\* C25: whenever a connection is accepted while at least one client slot is free,
\* whatever accepts, disconnects and fallback removals came before, its handle and
\* peer address are stored in the lowest-index free slot, and it is tracked.
C25_AcceptedIntoLowestFreeSlot ==
    (ev.kind = "accept" /\ FreeSlots(ev.before) # {}) =>
        /\ ev.slot = Least(FreeSlots(ev.before))
        /\ client_lst[ev.slot].client_sock = ev.fd
        /\ client_lst[ev.slot].addr = PeerAddr
        /\ ev.fd \in Tracked

\* C26: in each pass of the dispatch loop every tracked client whose handle the
\* readiness wait reported ready is read in that pass, whatever the reads on the other
\* clients returned: when the pass is over and the loop is back at its test, no such
\* client has been left unread.
C26_ReadyClientsAllRead ==
    (pc = "test") => (ev.unread = {})

\* the steps that read a client socket
ClientReads == {"eof", "read_error", "dispatch", "crash"}

\* C27: within one iteration of the dispatch loop at most one new connection is
\* accepted, the listening socket is serviced before any ready client socket, and
\* ready client sockets are serviced in ascending slot order: the accept branch is
\* entered only from the readiness wait, takes at most one pending connection and
\* leaves for slot 0 of the per-client loop or for the loop test; a client is read
\* only in the per-client loop, at the loop's current slot; and the loop only moves
\* to the next higher slot or ends the iteration, never back to the accept branch.
\* (A signal delivered between two steps changes only the running flag.)
C27_OneAcceptThenAscendingScan ==
    [][/\ (pc' = "accept") => (pc = "select")
       /\ (pc = "accept") =>
              /\ pc' \in {"scan", "test"}
              /\ pending' >= pending - 1
              /\ (pc' = "scan") => (scan_i' = 0)
              /\ ev'.kind \notin ClientReads
       /\ (ev'.kind \in ClientReads) => (pc = "scan" /\ ev'.slot = scan_i)
       /\ (pc = "scan") =>
              /\ pc' \in {"scan", "test", "crashed"}
              /\ (pc' = "scan") => (scan_i' = scan_i + 1)]_<<pc, scan_i, client_lst, fds, pending>>

\* the listening socket was reported ready and serviced in this iteration (the
\* connection it gave is in slot 1), the ready client of slot 0 has been read after
\* it, and the per-client loop has moved on to slot 1
C27_Witness ==
    /\ pc = "scan"
    /\ scan_i = 1
    /\ ListenFd \in sock_set
    /\ ev.kind \in ClientReads
    /\ ev.slot = 0
    /\ ev.fd \in sock_set
    /\ client_lst[1].client_sock # 0
    /\ client_lst[1].client_sock \notin sock_set

\* C31: when a read on a tracked client returns zero bytes, the client's socket is
\* closed, its record is zeroed so the slot is free, no response is written to it, and
\* the slot can be taken by a later accepted connection: the slot holds no handle and
\* the active-client count is below max_clients, which is what the accept branch asks
\* for before it stores a connection.
C31_DisconnectFreesSlot ==
    (ev.kind = "eof") =>
        /\ ev.before[ev.slot].client_sock = ev.fd
        /\ ~fds[ev.fd].open
        /\ client_lst[ev.slot] = ZeroClient
        /\ ev.fd \notin Tracked
        /\ ev.wrote = <<>>
        /\ \A s \in Slots \ {ev.slot} : client_lst[s] = ev.before[s]
        /\ num_clients < max_clients
        /\ first_free_slot(num_clients, 0) \in 0..ev.slot

\* a tracked client that had been served disconnected while another connection is
\* waiting to be accepted
C31_Witness ==
    /\ ev.kind = "eof"
    /\ client_lst[ev.slot].client_sock = 0
    /\ ~fds[ev.fd].open
    /\ pending > 0

\* the handler has just run while the flag was 0, or it has cleared the flag since
\* the loop was entered (nothing else writes 0 to it)
InterruptDelivered == ev.kind = "sigint" \/ (pc \in LoopPcs /\ running = 0)

\* C32: no interrupt is lost: an interrupt signal delivered at any moment after
\* server_start has installed its handler, including before the running flag is first
\* set to run, leads to server_start returning (or the process has died on a request
\* meanwhile).
C32_NoInterruptLost ==
    InterruptDelivered ~> (pc \in {"returned", "crashed"})

\* C34: for every positive read from a tracked client the server attempts exactly one
\* response for it: either the handler-built success response or the fallback 404,
\* never both and never neither.
C34_ExactlyOneResponse ==
    Handled =>
        /\ Len(ev.wrote) = 1
        /\ ev.wrote[1].fd = ev.fd
        /\ (ev.wrote[1].data = not_found) = (ev.calls = 0 \/ ev.ret = 0)

\* C35: over any sequence of accepts, reads, removals and shutdown, no client socket
\* handle is closed more than once, no two occupied slots hold the same handle, and a
\* slot whose record was zeroed is never passed to close again: close is only ever
\* given the handle of an open client socket, and the occupied slots hold distinct
\* open handles.
C35_ClientHandlesClosedOnce ==
    /\ ~heap.closed_again
    /\ \A s \in Occupied : is_open(fds, client_lst[s].client_sock)
    /\ \A s, t \in Occupied : (s # t) => (client_lst[s].client_sock # client_lst[t].client_sock)

\* a connection was stored under a descriptor number lower than that of another
\* tracked client: the number had been given out before, closed, and given out again
C35_Witness ==
    /\ ev.kind = "accept"
    /\ ev.slot # -1
    /\ client_lst[ev.slot].client_sock = ev.fd
    /\ \E s \in Occupied : client_lst[s].client_sock > ev.fd

\* C39: after any sequence of add_route and remove_route calls and of client
\* removals, every route table that can still be used (here: the table of a slot that
\* holds a client, which process_header searches) satisfies 0 <= count <= capacity
\* with capacity at least 4 and never decreasing, and add_route called on it never
\* stores a route at an index at or beyond the capacity.
C39_TableWithinCapacity ==
    \A s \in Occupied :
        LET t == client_lst[s].router_lst
        IN  /\ 0 <= t.count /\ t.count <= t.capacity
            /\ t.capacity >= InitialCapacity
            /\ (ev.before # <<>>) => (t.capacity >= ev.before[s].router_lst.capacity)
            /\ ~add_route(t, Router(GET, PathA, "h1"), TRUE).oob

(***************************************************************************)
(* Properties of the route table.                                          *)
(***************************************************************************)
\* C10: server_remove_route takes out the first registered route equal to (method, path)
\* and returns 1, the other entries keeping their order; with no such route it returns 0
\* and leaves the table (entries, order, count) as it was; and once a route registered
\* exactly once is removed, a request for it runs no handler and writes no response of
\* one, which is what server_start answers with the fallback.
C10_RemoveRoute ==
    (ev.kind = "remove_route") =>
        \A s \in Slots :
            LET old == ev.before[s].router_lst
                new == client_lst[s].router_lst
                m == Matching(Entries(old), ev.route)
            IN  IF m = {}
                THEN ev.ret = 0 /\ new = old
                ELSE /\ ev.ret = 1
                     /\ new.count = old.count - 1
                     /\ new.capacity = old.capacity
                     /\ Entries(new) = Without(Entries(old), Least(m))
                     /\ Cardinality(m) = 1 =>
                           \A req \in Requests, o \in HandlerOutcomes :
                               (WellFormed(req) /\ same_router(Target(req), ev.route)) =>
                                   LET r == process_header(
                                                req, ListenFd + 1, new,
                                                [h \in Handlers |->
                                                    IF o.handler_fails THEN NullStr
                                                    ELSE HandlerBody(h)],
                                                o.alloc_ok, o.sent)
                                   IN  r.ret = 0 /\ r.calls = 0 /\ r.wrote = <<>>

\* a route registered twice, with different handlers, lost its first registration
C10_Witness ==
    /\ ev.kind = "remove_route"
    /\ ev.ret = 1
    /\ \E i, j \in Matching(Entries(ev.table), ev.route) :
          i < j /\ Entries(ev.table)[i].handler # Entries(ev.table)[j].handler
    /\ client_lst[0].router_lst.count = ev.table.count - 1

(***************************************************************************)
(* Properties of routers.c on one table.                                   *)
(***************************************************************************)
\* the table after the last call
Table == client_lst[0].router_lst

\* C21: two routes are equal exactly when their methods are the same and their paths
\* are the same string, whatever their handlers; find_route reports a match for a
\* (method, path) if and only if some registered route is equal to it, and the index
\* it reports is that of such a route.
C21_EqualityAndLookup ==
    /\ \A a \in DirectRouteChoices \cup SearchChoices, b \in DirectRouteChoices :
           same_router(a, b) <=> (a.method = b.method /\ a.path = b.path)
    /\ (ev.kind = "table_find") =>
          LET m == Matching(Entries(ev.table), ev.route)
          IN  /\ (ev.index # -1) <=> (m # {})
              /\ (ev.index # -1) => (ev.index + 1) \in m

\* with GET /a and POST /a registered, GET /a was searched for and found
C21_Witness ==
    /\ ev.kind = "table_find"
    /\ Entries(ev.table) = <<Router(GET, PathA, "h1"), Router(POST, PathA, "h2")>>
    /\ ev.route = Router(GET, PathA, NullHandler)
    /\ ev.index = 0

\* C22: from an empty table of capacity 4, the successful add_route calls leave count
\* equal to their number and the routes stored in registration order, each findable;
\* a call fails only when the table is full and cannot grow, and then changes
\* nothing; a successful call stores the route at index count, doubles the capacity
\* when the table was full, and leaves every earlier entry at its position.
C22_AddKeepsOrder ==
    /\ Table.count = Len(registered)
    /\ Entries(Table) = registered
    /\ \A k \in 1..Len(registered) : find_route(Table, registered[k]) # -1
    /\ (ev.kind = "table_add") =>
          LET old == ev.table
              full == old.count = old.capacity
          IN  /\ ~ev.ub
              /\ (ev.ret = 1) <=> (~full \/ ev.alloc_ok)
              /\ (ev.ret # 1) => (ev.ret = 0 /\ Table = old)
              /\ (ev.ret = 1) =>
                    /\ Table.count = old.count + 1
                    /\ Table.capacity = (IF full THEN 2 * old.capacity ELSE old.capacity)
                    /\ Table.items[old.count + 1] = ev.route
                    /\ \A k \in 1..old.count : Table.items[k] = old.items[k]

\* a fifth route was added to a full table of capacity 4, which grew to capacity 8
C22_Witness ==
    /\ ev.kind = "table_add"
    /\ ev.table.count = 4
    /\ ev.table.capacity = 4
    /\ ev.ret = 1
    /\ Table.capacity = 8
    /\ Table.count = 5
    /\ Entries(Table) = Append(Entries(ev.table), ev.route)

\* no two entries of the sequence have the same method and path
PairwiseDistinct(seq) ==
    \A j, k \in 1..Len(seq) : (j # k) => ~(seq[j].method = seq[k].method /\ seq[j].path = seq[k].path)

\* C23: removing a route from a table of pairwise distinct routes that holds it
\* returns 1, leaves exactly the other routes in their previous order, decrements
\* count by one and clears the vacated last slot; a search for the removed route on
\* the table then fails.
C23_RemoveCompacts ==
    (/\ ev.kind = "table_remove"
     /\ PairwiseDistinct(Entries(ev.table))
     /\ Matching(Entries(ev.table), ev.route) # {}) =>
        LET old == ev.table
            i == Least(Matching(Entries(old), ev.route))
        IN  /\ ev.ret = 1
            /\ Entries(Table) = Without(Entries(old), i)
            /\ Table.count = old.count - 1
            /\ Table.capacity = old.capacity
            /\ Table.items[old.count] = ZeroRouter
            /\ find_route(Table, ev.route) = -1

\* from [GET /a, POST /a, GET /b], POST /a was removed and [GET /a, GET /b] is left
C23_Witness ==
    /\ ev.kind = "table_remove"
    /\ Entries(ev.table) = <<Router(GET, PathA, "h1"), Router(POST, PathA, "h2"),
                             Router(GET, PathB, "h1")>>
    /\ ev.route = Router(POST, PathA, NullHandler)
    /\ Entries(Table) = <<Router(GET, PathA, "h1"), Router(GET, PathB, "h1")>>
    /\ Table.count = 2

\* the C indices of the routes of the table that are equal to r
EqualAt(table, r) ==
    {k \in 0..(table.count - 1) :
        table.items[k + 1].method = r.method /\ table.items[k + 1].path = r.path}

\* C30: the route table tolerates duplicates and the first match wins: when several
\* registered routes are equal to the request's method and path, lookup returns the
\* lowest-index one and its handler is the one invoked; removing that route once makes
\* the next equal route the match.
C30_FirstMatchWins ==
    /\ (ev.kind = "table_find" /\ EqualAt(ev.table, ev.route) # {}) =>
          (ev.index = Least(EqualAt(ev.table, ev.route)))
    /\ (ev.kind = "table_dispatch") =>
          LET equal == EqualAt(ev.table, extract_router(ev.req).router)
          IN  (equal # {}) =>
                  /\ ev.index = Least(equal)
                  /\ ev.handler = ev.table.items[Least(equal) + 1].handler
                  /\ ev.calls = 1
                  /\ Len(ev.wrote) = 1
                  /\ ev.wrote[1].data.body = HandlerBody(ev.handler)
    /\ (ev.kind = "table_remove" /\ Cardinality(EqualAt(ev.table, ev.route)) >= 2) =>
          LET equal == EqualAt(ev.table, ev.route)
              next == Least(equal \ {Least(equal)})
          IN  /\ ev.ret = 1
              /\ Table.count = ev.table.count - 1
              /\ find_route(Table, ev.route) = next - 1
              /\ Least(EqualAt(Table, ev.route)) = next - 1
              /\ Table.items[next] = ev.table.items[next + 1]

\* a request was dispatched on a table that holds two equal routes with different
\* handlers, neither in the first slot, and the handler of the lower one was invoked
C30_Witness ==
    /\ ev.kind = "table_dispatch"
    /\ LET equal == EqualAt(ev.table, extract_router(ev.req).router)
       IN  /\ Cardinality(equal) >= 2
           /\ Least(equal) > 0
           /\ \E k \in equal : ev.table.items[k + 1].handler # ev.table.items[Least(equal) + 1].handler
           /\ ev.handler = ev.table.items[Least(equal) + 1].handler
           /\ ev.calls = 1

(***************************************************************************)
(* Properties of the JSON API demo.                                        *)
(***************************************************************************)
\* the handler of the last request left the user list, the count and the id counter
\* as they were
DemoUnchanged ==
    /\ app.users = ev.before.users
    /\ app.user_count = ev.before.user_count
    /\ app.next_id = ev.before.next_id

\* C37: in the JSON API demo, over any sequence of create, update and delete requests
\* the user count stays between 0 and 10; a create issued when 10 users exist reports
\* the maximum-capacity error and leaves the user list, the count and the id counter
\* unchanged, and an update or delete issued on an empty list reports the no-users
\* error and leaves them unchanged.  (The error is reported when the handler's
\* response buffer could be allocated; without it the handler returns NULL.)
C37_UserCountBounded ==
    /\ app.user_count \in 0..UserCapacity
    /\ (ev.kind = "post_users" /\ ev.before.user_count = UserCapacity) =>
          /\ DemoUnchanged
          /\ ev.alloc_ok => (ev.output = ErrorResponse("Maximum number of users reached"))
    /\ (ev.kind = "put_users" /\ ev.before.user_count = 0) =>
          /\ DemoUnchanged
          /\ ev.alloc_ok => (ev.output = ErrorResponse("No users to update"))
    /\ (ev.kind = "delete_users" /\ ev.before.user_count = 0) =>
          /\ DemoUnchanged
          /\ ev.alloc_ok => (ev.output = ErrorResponse("No users to delete"))

\* a create was refused with ten users stored, after users had been deleted and
\* created again
C37_Witness ==
    /\ ev.kind = "post_users"
    /\ ev.before.user_count = UserCapacity
    /\ ev.output = ErrorResponse("Maximum number of users reached")
    /\ app.user_count = UserCapacity
    /\ app.deleted_ids # {}

\* the ids of the users stored in a
StoredIds(a) == {a.users[i].id : i \in 0..(a.user_count - 1)}

\* C38: in the JSON API demo, over any sequence of create, update and delete requests
\* the stored users have pairwise distinct ids that are strictly increasing in array
\* order, the id counter never decreases, and an id freed by a delete is never given
\* to a later created user; a delete removes the first user and keeps the others in
\* order.
C38_UserIdsIncrease ==
    /\ \A i, j \in 0..(app.user_count - 1) : (i < j) => (app.users[i].id < app.users[j].id)
    /\ (ev.kind \in {"post_users", "put_users", "delete_users"}) =>
          (app.next_id >= ev.before.next_id)
    /\ StoredIds(app) \cap app.deleted_ids = {}
    /\ (ev.kind = "post_users" /\ app.user_count # ev.before.user_count) =>
          /\ app.user_count = ev.before.user_count + 1
          /\ app.users[app.user_count - 1].id \notin
                 ev.before.deleted_ids \cup StoredIds(ev.before)
          /\ ev.output.id = app.users[app.user_count - 1].id
          /\ \A i \in 0..(ev.before.user_count - 1) : app.users[i] = ev.before.users[i]
    /\ (ev.kind = "delete_users" /\ ev.before.user_count > 0 /\ ev.alloc_ok) =>
          /\ app.user_count = ev.before.user_count - 1
          /\ ev.output.id = ev.before.users[0].id
          /\ ev.output.id \in app.deleted_ids
          /\ \A i \in 0..(app.user_count - 1) : app.users[i] = ev.before.users[i + 1]

\* a user was created after a delete had freed an id, next to users that were kept
C38_Witness ==
    /\ ev.kind = "post_users"
    /\ app.user_count = ev.before.user_count + 1
    /\ app.user_count >= 2
    /\ ev.before.deleted_ids # {}
    /\ app.users[app.user_count - 1].id = ev.before.next_id

(***************************************************************************)
(* Properties of the server's life: server_init, server_start, server_free. *)
(***************************************************************************)
\* C11: a server_init that succeeds has bound the listening socket to the loopback
\* address 127.0.0.1 when the mode is DEV and to all interfaces, 0.0.0.0, when the
\* mode is PROD.
C11_ModeSelectsAddress ==
    (ev.kind = "server_init" /\ ev.result = "server") =>
        ev.addr = IF ev.mode = DEV THEN LOCALHOST_IP ELSE INADDR_ANY

\* what server_init had acquired when the step fail.step failed
AcquiredBy(fail) ==
    [server |-> fail.step # "server",
     client_lst |-> fail.step \notin {"server", "client_lst"},
     items |-> [s \in Slots |->
                   CASE fail.step \in {"server", "client_lst"} -> FALSE
                     [] fail.step = "items" -> s < fail.index
                     [] OTHER -> TRUE],
     socket |-> fail.step \in {"setsockopt", "bind"}]

\* C13: when a step of server_init fails (the allocation of the server record, of
\* the client array or of a route table, socket, setsockopt, bind), server_init
\* returns NULL, and each thing acquired before that step, memory and listening
\* socket, has been released exactly once; it returns a server only when no step
\* fails.
C13_InitFailureReleasesAll ==
    (ev.kind = "server_init") =>
        LET got == AcquiredBy(ev.fail)
        IN  /\ (ev.result = "NULL") <=> (ev.fail.step # "none")
            /\ (ev.fail.step # "none") =>
                  /\ pc = "init_failed"
                  /\ heap.server = (IF got.server THEN "freed" ELSE "none")
                  /\ heap.client_lst = (IF got.client_lst THEN "freed" ELSE "none")
                  /\ \A s \in Slots :
                         heap.items[s] = (IF got.items[s] THEN "freed" ELSE "none")
                  /\ ~listen_open
                  /\ ~heap.double_free
                  /\ ~heap.double_close

\* the allocation of the second client's route table failed after the first client's
\* had been allocated
C13_Witness ==
    /\ ev.kind = "server_init"
    /\ ev.fail = [step |-> "items", index |-> 1]
    /\ ev.result = "NULL"
    /\ heap.items[0] = "freed"
    /\ heap.server = "freed"

\* C14: the application calls server_free after server_start has returned from a
\* shutdown: when server_start returns 1 the listening socket, the client array, the
\* route storage and the server record are still held, and the server_free call
\* that follows releases each of them exactly once.
C14_ApplicationFreesServer ==
    /\ (pc = "returned" /\ ret = 1) =>
          /\ listen_open
          /\ heap.server = "live"
          /\ heap.client_lst = "live"
          /\ \A s \in Slots : client_lst[s].router_lst.ptr # "NULL" => heap.items[s] = "live"
    /\ (ev.kind = "server_free" /\ ret = 1) =>
          /\ ev.result = "done"
          /\ Released
          /\ ~heap.double_free
          /\ ~heap.double_close

\* the server as a successful server_init left it, with no client accepted or read
Untouched ==
    /\ listen_open
    /\ heap.server = "live"
    /\ heap.client_lst = "live"
    /\ \A s \in Slots : heap.items[s] = "live"
    /\ ~heap.double_free
    /\ ~heap.double_close
    /\ running = 0
    /\ num_clients = 0
    /\ \A s \in Slots : client_lst[s].client_sock = 0
    /\ \A f \in FdRange : ~fds[f].open /\ fds[f].served = 0

\* C15: when listen or the installation of the interrupt handler fails, server_start
\* returns -1 without entering its dispatch loop (no connection accepted, none read)
\* and with the server still allocated; the caller's server_free then releases the
\* socket, the route tables, the client array and the record, each once.
C15_StartFailureLeavesServer ==
    /\ (ev.kind \in {"listen", "sigaction"} /\ ev.result = "failed") =>
          (pc = "returned" /\ ret = -1 /\ Untouched)
    /\ (pc = "returned" /\ ret = -1) => Untouched
    /\ (ev.kind = "server_free" /\ ret = -1) =>
          /\ ev.result = "done"
          /\ Released
          /\ ~heap.double_free
          /\ ~heap.double_close

\* the caller released the server after a server_start that failed to listen or to
\* install the handler, with a route registered
C15_Witness ==
    /\ ev.kind = "server_free"
    /\ ret = -1
    /\ pc = "freed"
    /\ registered # <<>>
    /\ heap.server = "freed"

(***************************************************************************)
(* Properties of the library calls.                                        *)
(***************************************************************************)
\* the number of occurrences of x in seq
Count(seq, x) == Cardinality({k \in 1..Len(seq) : seq[k] = x})

MethodValue(name) ==
    CASE name = <<"G", "E", "T">> -> GET
      [] name = <<"P", "O", "S", "T">> -> POST
      [] name = <<"P", "U", "T">> -> PUT
      [] name = <<"D", "E", "L", "E", "T", "E">> -> DELETE

\* C16: for a buffer whose first line is METHOD SP PATH SP VERSION CRLF with METHOD
\* one of GET, POST, PUT, DELETE, extract_router returns the route with that method
\* and with the second token, PATH, as its path, whatever follows the first line.
C16_RequestLineResolved ==
    (ev.kind = "extract_router") =>
        /\ ~ev.output.ub
        /\ ev.output.router.method = MethodValue(ev.input.method)
        /\ ev.output.router.path = ev.input.path

\* a DELETE request line was resolved although a later line names another method and path
C16_Witness ==
    /\ ev.kind = "extract_router"
    /\ ev.input.method = <<"D", "E", "L", "E", "T", "E">>
    /\ ev.input.path = PathA
    /\ ev.input.rest = <<"P", "U", "T", SP, "/", "b", SP, "H", CR, LF, CR, LF>>
    /\ ev.output.router = Router(DELETE, PathA, NullHandler)

\* the text holds no CR immediately followed by LF
NoCrLf(text) == \A k \in 1..(Len(text) - 1) : ~(text[k] = CR /\ text[k + 1] = LF)

\* C17: for every non-empty buffer that holds no CR-LF pair at all, extract_router
\* returns a route tagged FAIL.
C17_NoTerminatorIsFail ==
    (ev.kind = "extract_router_raw" /\ ev.input.header # <<>> /\ NoCrLf(ev.input.header)) =>
        (~ev.output.ub /\ ev.output.router.method = FAIL)

\* the text holds a CR immediately followed by LF, and k is where the first one starts
FirstCrLf(text, k) ==
    /\ k \in 1..(Len(text) - 1)
    /\ text[k] = CR /\ text[k + 1] = LF
    /\ \A j \in 1..(k - 1) : ~(text[j] = CR /\ text[j + 1] = LF)

\* the number of space-separated tokens of a line: the maximal runs of other bytes
TokenCount(line) ==
    Cardinality({k \in 1..Len(line) : line[k] # SP /\ (k = 1 \/ line[k - 1] = SP)})

\* the first line of the buffer is not empty and holds fewer than two tokens
NoPathToken(header) ==
    \E k \in 2..(Len(header) - 1) :
        /\ FirstCrLf(header, k)
        /\ TokenCount(SubSeq(header, 1, k - 1)) < 2

\* C28: a request whose first line has no space-separated path token (a single token,
\* or only separators) resolves to a route tagged FAIL; extraction never uses a
\* missing second token as the path.
C28_NoPathTokenIsFail ==
    (ev.kind = "extract_router_raw" /\ NoPathToken(ev.input.header)) =>
        (~ev.output.ub /\ ev.output.router.method = FAIL)

\* extract_lines finds no line in the buffer: it reports cannot-process, or returns a
\* list that holds the end marker only
NoLine(header) ==
    LET extracted_lines == extract_lines(header, strlen(header))
    IN  extracted_lines.null \/ extracted_lines.list = <<>>

\* C29: when no line can be extracted from the request buffer, including a non-empty
\* buffer that begins with a CR-LF, extract_router returns a route tagged FAIL with no
\* path and no handler; it never reads a first line that does not exist.
C29_NoLineIsFail ==
    (ev.kind = "extract_router_raw" /\ NoLine(ev.input.header)) =>
        (~ev.output.ub /\ ev.output.router = FailRouter)

\* C33: the request text handed to process_header for a client is exactly the bytes
\* read from that client in the current pass: its parsing never depends on bytes left
\* in the buffer by an earlier read, so the route resolved is the one the bytes read
\* resolve to on their own.
C33_ParsingSeesOnlyBytesRead ==
    (ev.kind = "read_request") => (ev.output = extract_router(ev.input.chunk))

\* what one request's processing may allocate
RequestAllocations == {"extracted_lines", "header_sep", "path", "handler_str", "response"}

\* C36: processing one request leaves no allocation outstanding: on every exit path of
\* process_header (FAIL route, no matching route, handler executed) the path copy
\* created by extract_router, the extracted lines and the split tokens have all been
\* released.
C36_RequestLeavesNoAllocation ==
    (ev.kind = "process_header") =>
        \A a \in RequestAllocations :
            Count(ev.output.frees, a) = Count(ev.output.allocs, a)

\* C18 as stated: for every N >= 1 and every N tokens without the separator, split
\* of the non-empty buffer that joins them returns exactly the N tokens, in order,
\* then the end marker; split of an empty or absent buffer returns the
\* cannot-process result.
C18_SplitRoundTrip ==
    /\ (ev.kind = "split" /\ ev.input.buffer # <<>>) =>
          (~ev.output.null /\ ev.output.list = ev.input.tokens)
    /\ (ev.kind = "split" /\ ev.input.buffer = <<>>) => ev.output = NullList
    /\ (ev.kind = "split_absent") => ev.output = NullList

\* C18, amended: for every N >= 1 and every N tokens without the separator, the last
\* of them non-empty, split of the buffer that joins them returns exactly the N
\* tokens, in order, then the end marker; split of an empty or absent buffer returns
\* the cannot-process result.
C18_SplitRoundTripLastNonEmpty ==
    /\ (ev.kind = "split" /\ ev.input.tokens[Len(ev.input.tokens)] # <<>>) =>
          (~ev.output.null /\ ev.output.list = ev.input.tokens)
    /\ (ev.kind = "split" /\ ev.input.buffer = <<>>) => ev.output = NullList
    /\ (ev.kind = "split_absent") => ev.output = NullList

\* four tokens, the first and the third empty, came back as they were
C18_Witness ==
    /\ ev.kind = "split"
    /\ ev.input.tokens = <<<<>>, <<"a">>, <<>>, <<"b", "c">>>>
    /\ ev.input.sep = SP
    /\ ev.output.list = ev.input.tokens

\* C19: for a buffer made of non-empty lines each ended by CR LF, then an empty
\* line, then any trailing bytes, extract_lines returns exactly the lines before the
\* empty line, in order, and nothing of what follows it.
C19_LinesStopAtEmptyLine ==
    (ev.kind = "extract_lines_header") =>
        (~ev.output.null /\ ev.output.list = ev.input.lines)

\* two lines were returned and the terminated line after the empty line was not
C19_Witness ==
    /\ ev.kind = "extract_lines_header"
    /\ ev.input.lines = <<<<"a">>, <<"b", CR>>>>
    /\ ev.input.trailing = <<"x", CR, LF>>
    /\ ev.output.list = ev.input.lines

\* C20: for a buffer without an empty line, made of lines each ended by CR LF and of
\* a final non-empty segment with no terminator, extract_lines returns every
\* terminated line and then the final segment, verbatim up to the end of the buffer.
C20_TrailingSegmentKept ==
    (ev.kind = "extract_lines_partial") =>
        (~ev.output.null /\ ev.output.list = Append(ev.input.lines, ev.input.segment))

\* two terminated lines and a segment that ends with a lone CR were returned
C20_Witness ==
    /\ ev.kind = "extract_lines_partial"
    /\ ev.input.lines = <<<<"a">>, <<LF, "c">>>>
    /\ ev.input.segment = <<"y", CR>>
    /\ ev.output.list = <<<<"a">>, <<LF, "c">>, <<"y", CR>>>>

=============================================================================
